---- MODULE Spec2Model ----
(***************************************************************************)
(* A model of the MCP tool bridge and execution engine:                    *)
(*   - the connection registry of client.ts (getOrCreateClient,            *)
(*     callMCPTool, closeAllConnections),                                  *)
(*   - the binding initialisation of executor.ts (initializeMCPTools),     *)
(*   - the two entry points: runExecutor (executor-utils.ts, driven by the *)
(*     handler of executor.ts) and main/executeCode,                       *)
(*   - the schema fetch of converter.ts as far as its connections and its  *)
(*     console writes go.                                                  *)
(* Strings that the code takes apart (provider names, tool names, combined *)
(* identifiers, environment keys) are sequences of one-character strings;  *)
(* texts that are only written or compared are TLA+ strings.               *)
(***************************************************************************)
EXTENDS Integers, Sequences, FiniteSets, TLC

(***************************************************************************)
(* Bounds of the model.                                                    *)
(***************************************************************************)
\* callMCPTool invocations made by the harness
MaxCalls == 2
\* binding calls made by the user code in one run
MaxUserCalls == 1
\* console writes made by the user code in one run
MaxLogs == 1
\* closeAllConnections() invocations made by the harness
MaxCloseAlls == 2
\* the console writes and binding calls user code makes, taken together
MaxUserSteps == 2
\* initializeMCPTools() invocations after the first one
MaxReinits == 2

\* the longest tool name handed to toCamelCase
MaxNameLen == 3

(***************************************************************************)
(* Strings as character sequences.                                         *)
(***************************************************************************)
RECURSIVE Join(_)
\* the text of a character sequence
Join(s) == IF s = <<>> THEN "" ELSE Head(s) \o Join(Tail(s))

\* String.prototype.toUpperCase / toLowerCase, character by character
UpperChar(c) ==
    CASE c = "a" -> "A" [] c = "b" -> "B" [] c = "t" -> "T" [] c = "u" -> "U"
      [] OTHER -> c

LowerChar(c) ==
    CASE c = "A" -> "a" [] c = "B" -> "b" [] c = "T" -> "t" [] c = "U" -> "u"
      [] OTHER -> c

toUpperCase(s) == [i \in 1..Len(s) |-> UpperChar(s[i])]

toLowerCase(s) == [i \in 1..Len(s) |-> LowerChar(s[i])]

IsLowerLetter(c) == c \in {"a", "b", "t", "u"}

RECURSIVE toCamelCaseEveryUnderscore(_)
\* str.replace(/_(.)/g, (_, c) => c.toUpperCase()): every underscore that has
\* a successor is removed
toCamelCaseEveryUnderscore(s) ==
    IF s = <<>> THEN <<>>
    ELSE IF Len(s) >= 2 /\ s[1] = "_"
         THEN <<UpperChar(s[2])>> \o toCamelCaseEveryUnderscore(SubSeq(s, 3, Len(s)))
         ELSE <<s[1]>> \o toCamelCaseEveryUnderscore(Tail(s))

RECURSIVE toCamelCase(_)
\* str.replace(/_([a-z])/g, (_, letter) => letter.toUpperCase())
toCamelCase(s) ==
    IF s = <<>> THEN <<>>
    ELSE IF Len(s) >= 2 /\ s[1] = "_" /\ IsLowerLetter(s[2])
         THEN <<UpperChar(s[2])>> \o toCamelCase(SubSeq(s, 3, Len(s)))
         ELSE <<s[1]>> \o toCamelCase(Tail(s))

RECURSIVE SplitFrom(_, _)
\* String.prototype.split("__"): the parts between the leftmost,
\* non-overlapping occurrences of the separator; cur is the part being read
SplitFrom(s, cur) ==
    IF s = <<>> THEN <<cur>>
    ELSE IF Len(s) >= 2 /\ s[1] = "_" /\ s[2] = "_"
         THEN <<cur>> \o SplitFrom(SubSeq(s, 3, Len(s)), <<>>)
         ELSE SplitFrom(Tail(s), Append(cur, s[1]))

Split(s) == SplitFrom(s, <<>>)

\* `${serverName}__${toolName}`
CombinedName(serverName, toolName) == serverName \o <<"_", "_">> \o toolName

(***************************************************************************)
(* JavaScript values, as far as the engine looks at them: a type tag and a *)
(* payload text.                                                           *)
(***************************************************************************)
Val(t, v) == [t |-> t, v |-> v]

Undefined == Val("undefined", "")

Null == Val("null", "")

\* a property that JSON.stringify leaves out of its output
Absent == Val("absent", "")

\* String(x)
StringOf(x) ==
    CASE x.t = "undefined" -> "undefined"
      [] x.t = "null" -> "null"
      [] x.t = "object" -> "[object Object]"
      [] x.t = "Error" -> IF x.v = "" THEN "Error" ELSE "Error: " \o x.v
      [] OTHER -> x.v

\* typeof x
TypeOf(x) == IF x.t \in {"null", "object", "array", "Error"} THEN "object"
             ELSE x.t

\* String(error) whatever the error is
ErrorTextStringForm(x) == StringOf(x)

\* error instanceof Error ? error.message : String(error)
ErrorText(x) == IF x.t = "Error" THEN x.v ELSE StringOf(x)

\* JSON.stringify throws a TypeError on a BigInt
StringifyThrows(x) == x.t = "bigint"

\* what JSON.stringify writes for a property holding x: a property holding
\* undefined is left out, NaN is written as null
JsonOf(x) ==
    CASE x.t = "undefined" -> Absent
      [] x.t = "number" /\ x.v = "NaN" -> Null
      [] OTHER -> x

\* the values with a JSON form that reads back as the same value
JsonSerializable(x) ==
    \/ x.t \in {"string", "null", "object", "boolean"}
    \/ x.t = "number" /\ x.v # "NaN"

(***************************************************************************)
(* The world outside the program: the process environment, the code        *)
(* argument, the tools a provider advertises, what user code returns and   *)
(* raises.                                                                  *)
(***************************************************************************)
EnvEntry(k, v) == [key |-> k, value |-> v]

\* process.env: the MCP_SERVER_ entries in the order Object.entries gives
\* them, each the part of the key after the prefix and the value, which is
\* the JSON text of a server configuration ("json") or a text that
\* JSON.parse rejects ("malformed")
Environments ==
    {<<>>,
     <<EnvEntry(<<"A">>, "json")>>,
     <<EnvEntry(<<"A">>, "malformed")>>,
     <<EnvEntry(<<"A">>, "json"), EnvEntry(<<"B">>, "json")>>,
     <<EnvEntry(<<"A">>, "malformed"), EnvEntry(<<"B">>, "json")>>,
     <<EnvEntry(<<"a">>, "json")>>}

\* process.argv[2]
CodeArgs == {"absent", "empty", "invalid", "valid"}

\* the entry point the process was started with
Entries == {"runExecutor", "main"}

\* a tool of a tools/list answer: its name, the required array of its
\* inputSchema, and its description, <<>> when it has none and <<text>>
\* otherwise
DescribedTool(name, required, description) ==
    [name |-> name, required |-> required, description |-> description]

Tool(name, required) == DescribedTool(name, required, <<>>)

GetUser == Tool(<<"t", "_", "u">>, <<"id">>)


\* the tool lists a provider may answer tools/list with
AdvertisedTools == {<<GetUser>>}

\* what the user code may return
ReturnValues ==
    {Val("number", "2"), Val("number", "NaN"), Undefined, Val("bigint", "1")}

\* what the user code may raise: Error objects and values that are no Error
RaisedValues ==
    {Val("Error", "boom"), Val("Error", ""), Val("string", "oops"), Undefined}

\* the argument user code passes to a binding
Inputs == {Val("string", "abc"), Val("object", "{}")}

\* the text user code writes to the console
ConsoleTexts == {"hi"}

ConsoleChannels == {"log", "error", "warn"}

\* the content payload of a provider's answer to tools/call
Contents == {Val("string", "text")}

(***************************************************************************)
(* State.                                                                  *)
(***************************************************************************)
VARIABLES
    env,               \* process.env (never written)
    entry,             \* the entry point that runs
    argv2,             \* process.argv[2]
    pc,                \* where the entry point is
    captured,          \* console.log/error/warn are the capturing functions
    logs,              \* logCapture.logs
    stdout,            \* what reached standard output, in order
    exitCode,          \* the process exit status, -1 while it runs
    outcome,           \* how the handler settled
    isInitialized,     \* executor.ts: isInitialized
    mcpConfig,         \* initializeMCPTools: mcpConfig, its keys in order
    toolsMetadata,     \* executor.ts: toolsMetadata
    bindings,          \* global[serverName][functionName]
    fetch,             \* fetchToolSchemas: the loop's position
    userLogs,          \* console writes the user code has made
    clientRegistry,    \* client.ts: clientRegistry
    transportRegistry, \* client.ts: transportRegistry, in insertion order
    transports,        \* every StdioClientTransport created, by number
    calls,             \* every callMCPTool invocation, by number
    closer,            \* the running closeAllConnections(), if any
    closeAllCalls,     \* closeAllConnections() invocations so far
    lastClose,         \* what the last closeAllConnections() did
    wire,              \* the tools/call requests answered and the answers
    converter,         \* the converter.ts the process was built with
    rawSchema,         \* the schema handed to normalizeSchema
    normalizedSchema,  \* what normalizeSchema returned for it
    globalTools,       \* global.__tools
    reinits,           \* initializeMCPTools() invocations after the first
    rawTool,           \* a tool as a provider's tools/list answer holds it
    fetchedTool,       \* the ToolSchema fetchToolSchemas makes of it
    bindingCall,       \* a binding and the argument it is called with
    forwarded,         \* the input that binding hands to callTool
    keyword,           \* the argument of __tools.search
    found,             \* what __tools.search returned
    toolName,          \* a tool name handed to toCamelCase
    functionName,      \* the binding name toCamelCase made of it
    provider,          \* the provider a binding was installed for
    splitParts,        \* the parts callMCPTool splits its identifier into
    listed,            \* what __tools.list returned
    described          \* a binding and what __tools.info returned for it

vars ==
    <<env, entry, argv2, pc, captured, logs, stdout, exitCode, outcome,
      isInitialized, mcpConfig, toolsMetadata, bindings, globalTools, fetch, userLogs,
      clientRegistry, transportRegistry, transports, calls, closer,
      closeAllCalls, lastClose, wire, converter, rawSchema, normalizedSchema,
      globalTools, reinits, rawTool, fetchedTool, bindingCall, forwarded,
      keyword, found, toolName, functionName, provider, splitParts,
      listed, described>>

engineVars ==
    <<pc, captured, logs, stdout, exitCode, outcome, isInitialized,
      mcpConfig, toolsMetadata, bindings, globalTools, fetch, userLogs>>

registryVars ==
    <<clientRegistry, transportRegistry, transports, calls, closer,
      closeAllCalls, lastClose, wire>>

worldVars == <<env, entry, argv2, converter, rawSchema>>

\* the arguments and results of the functions that are checked on their own
introspectVars == <<listed, described>>

nameVars == <<toolName, functionName, provider, splitParts, introspectVars>>

pureVars ==
    <<normalizedSchema, reinits, rawTool, fetchedTool, bindingCall, forwarded,
      keyword, found, nameVars>>

(***************************************************************************)
(* Console: createLogCapture and the original console.                     *)
(***************************************************************************)
\* the line the capturing console function pushes for one text argument
CaptureLine(channel, text) ==
    CASE channel = "error" -> "[ERROR] " \o text
      [] channel = "warn" -> "[WARN] " \o text
      [] OTHER -> text

StdoutText(text) == [kind |-> "text", text |-> text, body |-> <<>>]

StdoutEnvelope(e) == [kind |-> "envelope", text |-> "", body |-> <<e>>]

\* capturing functions that push nothing
LogsAfterLost(cap, lg, channel, texts) == lg

\* logCapture.logs after console[channel](text) for each text of texts: the
\* capturing functions push, the original ones do not
LogsAfter(cap, lg, channel, texts) ==
    IF cap
    THEN lg \o [i \in 1..Len(texts) |-> CaptureLine(channel, texts[i])]
    ELSE lg

\* standard output after the same writes: the original console.log writes
\* there, console.error and console.warn write to standard error
StdoutAfter(cap, out, channel, texts) ==
    IF ~cap /\ channel = "log"
    THEN out \o [i \in 1..Len(texts) |-> StdoutText(texts[i])]
    ELSE out

(***************************************************************************)
(* client.ts: the registries.                                              *)
(***************************************************************************)
NoMap == [n \in {} |-> 0]

\* a getOrCreateClient that never finds the client it registered
RegistryHasNever(reg, serverName) == FALSE

\* Map.prototype.has on clientRegistry
RegistryHas(reg, serverName) == serverName \in DOMAIN reg

\* Map.prototype.set on clientRegistry
ClientSet(reg, serverName, tid) ==
    [n \in DOMAIN reg \cup {serverName} |->
        IF n = serverName THEN tid ELSE reg[n]]

\* a closeAllConnections that leaves the client of a closed transport
\* registered
ClientDeleteKeeps(reg, serverName) == reg

\* Map.prototype.delete on clientRegistry
ClientDelete(reg, serverName) ==
    [n \in DOMAIN reg \ {serverName} |-> reg[n]]

\* the position of serverName in transportRegistry, 0 when it has none
TransportIndex(reg, serverName) ==
    IF \E i \in 1..Len(reg) : reg[i].name = serverName
    THEN CHOOSE i \in 1..Len(reg) : reg[i].name = serverName
    ELSE 0

\* Map.prototype.set on transportRegistry: a key it holds keeps its place
TransportSet(reg, serverName, tid) ==
    IF TransportIndex(reg, serverName) > 0
    THEN [reg EXCEPT ![TransportIndex(reg, serverName)].tid = tid]
    ELSE Append(reg, [name |-> serverName, tid |-> tid])

\* Map.prototype.delete on transportRegistry
TransportDelete(reg, serverName) ==
    SelectSeq(reg, LAMBDA e : e.name # serverName)

RegisteredNames(reg) == {reg[i].name : i \in 1..Len(reg)}

\* process.env[`MCP_SERVER_${key}`]
EnvLookup(e, key) ==
    IF \E i \in 1..Len(e) : e[i].key = key
    THEN e[CHOOSE i \in 1..Len(e) : e[i].key = key].value
    ELSE "absent"

Transport(serverName, st, origin) ==
    [server |-> serverName, st |-> st, origin |-> origin]

Call(id, input, st, serverName, tool, tid, out, overlapped) ==
    [id |-> id, input |-> input, st |-> st, server |-> serverName,
     tool |-> tool, tid |-> tid, out |-> out, overlapped |-> overlapped]

Pending(c) == c.st \in {"connecting", "calling"}

InvalidNameError(id) ==
    Val("Error", "Invalid tool name format: " \o Join(id)
                 \o ". Expected format: \"servername__toolname\"")

\* a message that does not name the provider
ConfigNotFoundErrorUnnamed(serverName) ==
    Val("Error", "MCP server configuration not found")

ConfigNotFoundError(serverName) ==
    Val("Error", "MCP server configuration not found for: " \o Join(serverName)
                 \o ". Expected environment variable: MCP_SERVER_"
                 \o Join(toUpperCase(serverName)))

JsonParseError == Val("Error", "Unexpected token")

ConnectError == Val("Error", "Connection failed")

ToolError == Val("Error", "Tool failed")

\* a callMCPTool that connects over the transport the schema fetch opened
\* for the provider, when there is one
CallIssuedOverFetched(id, input, newTid, overlapped) ==
    LET parts == Split(id)
        serverName == parts[1]
        tool == parts[2]
        config == EnvLookup(env, toUpperCase(serverName))
        fetched == {i \in 1..Len(transports) :
                      /\ transports[i].origin = "fetch"
                      /\ transports[i].server = serverName}
    IN  IF Len(parts) # 2
        THEN Call(id, input, "rejected", <<>>, <<>>, 0,
                  InvalidNameError(id), overlapped)
        ELSE IF config = "absent"
        THEN Call(id, input, "rejected", serverName, tool, 0,
                  ConfigNotFoundError(serverName), overlapped)
        ELSE IF config = "malformed"
        THEN Call(id, input, "rejected", serverName, tool, 0,
                  JsonParseError, overlapped)
        ELSE IF RegistryHas(clientRegistry, serverName)
        THEN Call(id, input, "calling", serverName, tool,
                  clientRegistry[serverName], Undefined, overlapped)
        ELSE Call(id, input, "connecting", serverName, tool,
                  IF fetched = {} THEN newTid ELSE CHOOSE i \in fetched : TRUE,
                  Undefined, overlapped)

\* callMCPTool up to its first suspension: the record of call number n
\* (also the number of the transport it creates, if it creates one)
CallIssued(id, input, newTid, overlapped) ==
    LET parts == Split(id)
        serverName == parts[1]
        tool == parts[2]
        config == EnvLookup(env, toUpperCase(serverName))
    IN  IF Len(parts) # 2
        THEN Call(id, input, "rejected", <<>>, <<>>, 0,
                  InvalidNameError(id), overlapped)
        ELSE IF config = "absent"
        THEN Call(id, input, "rejected", serverName, tool, 0,
                  ConfigNotFoundError(serverName), overlapped)
        ELSE IF config = "malformed"
        THEN Call(id, input, "rejected", serverName, tool, 0,
                  JsonParseError, overlapped)
        ELSE IF RegistryHas(clientRegistry, serverName)
        THEN Call(id, input, "calling", serverName, tool,
                  clientRegistry[serverName], Undefined, overlapped)
        ELSE Call(id, input, "connecting", serverName, tool, newTid,
                  Undefined, overlapped)

\* any registry operation other than closeAllConnections() ends the quiet
\* time after the last closeAllConnections()
Touched(lc) == [lc EXCEPT !.quiet = FALSE]

\* a callMCPTool that creates the transport before it has validated the
\* identifier and looked the configuration up
IssueCallLaunchesFirst(id, input) ==
    /\ LET newTid == Len(transports) + 1
           c == CallIssued(id, input, newTid,
                           \E k \in 1..Len(calls) : Pending(calls[k]))
       IN  /\ calls' = Append(calls, c)
           /\ transports' =
                IF c.st \in {"connecting", "rejected"}
                THEN Append(transports, Transport(c.server, "connecting", "call"))
                ELSE transports
    /\ lastClose' = Touched(lastClose)
    /\ UNCHANGED <<clientRegistry, transportRegistry, closer, closeAllCalls,
                   wire>>

\* callMCPTool(id, input) is invoked: lines 182-201 and getOrCreateClient
\* lines 154-168, up to `await client.connect(transport)` or, with a
\* registered client, up to `await client.callTool(...)`
IssueCall(id, input) ==
    /\ LET newTid == Len(transports) + 1
           c == CallIssued(id, input, newTid,
                           \E k \in 1..Len(calls) : Pending(calls[k]))
       IN  /\ calls' = Append(calls, c)
           /\ transports' =
                IF c.st = "connecting"
                THEN Append(transports, Transport(c.server, "connecting", "call"))
                ELSE transports
    /\ lastClose' = Touched(lastClose)
    /\ UNCHANGED <<clientRegistry, transportRegistry, closer, closeAllCalls,
                   wire>>

\* a getOrCreateClient that registers the client whether or not
\* client.connect(transport) resolved
ConnectSettleRegistersAnyway(k, ok) ==
    /\ k \in 1..Len(calls)
    /\ calls[k].st = "connecting"
    /\ clientRegistry' = ClientSet(clientRegistry, calls[k].server, calls[k].tid)
    /\ transportRegistry' =
         TransportSet(transportRegistry, calls[k].server, calls[k].tid)
    /\ IF ok
       THEN /\ transports' = [transports EXCEPT ![calls[k].tid].st = "open"]
            /\ calls' = [calls EXCEPT ![k].st = "calling"]
       ELSE /\ transports' = [transports EXCEPT ![calls[k].tid].st = "failed"]
            /\ calls' = [calls EXCEPT ![k].st = "rejected",
                                      ![k].out = ConnectError]
    /\ lastClose' = Touched(lastClose)
    /\ UNCHANGED <<closer, closeAllCalls, wire>>

\* client.connect(transport) settles for call k: lines 168-173, then
\* callMCPTool lines 203-206 up to `await client.callTool(...)`
ConnectSettle(k, ok) ==
    /\ k \in 1..Len(calls)
    /\ calls[k].st = "connecting"
    /\ IF ok
       THEN /\ clientRegistry' =
                 ClientSet(clientRegistry, calls[k].server, calls[k].tid)
            /\ transportRegistry' =
                 TransportSet(transportRegistry, calls[k].server, calls[k].tid)
            /\ transports' = [transports EXCEPT ![calls[k].tid].st = "open"]
            /\ calls' = [calls EXCEPT ![k].st = "calling"]
       ELSE /\ transports' = [transports EXCEPT ![calls[k].tid].st = "failed"]
            /\ calls' = [calls EXCEPT ![k].st = "rejected",
                                      ![k].out = ConnectError]
            /\ UNCHANGED <<clientRegistry, transportRegistry>>
    /\ lastClose' = Touched(lastClose)
    /\ UNCHANGED <<closer, closeAllCalls, wire>>

\* a request that names the tool by the whole combined identifier
RemoteRequestFullName(c) == [name |-> c.id, arguments |-> c.input]

\* the request of lines 203-206: { name: actualToolName, arguments: input }
RemoteRequest(c) == [name |-> c.tool, arguments |-> c.input]

\* the answer of a provider to tools/call
RemoteResult(content) == [content |-> content, isError |-> FALSE]

\* line 208: return result.content as T
ResultContent(result) == result.content

\* client.callTool(...) settles for call k: lines 203-208
ToolSettle(k, ok) ==
    /\ k \in 1..Len(calls)
    /\ calls[k].st = "calling"
    /\ \E content \in Contents :
         /\ calls' = IF ok
                      THEN [calls EXCEPT
                              ![k].st = "resolved",
                              ![k].out = ResultContent(RemoteResult(content))]
                      ELSE [calls EXCEPT ![k].st = "rejected",
                                         ![k].out = ToolError]
         /\ wire' = wire \cup
                      {[call |-> k, tid |-> calls[k].tid,
                        request |-> RemoteRequest(calls[k]),
                        ok |-> ok,
                        result |-> IF ok THEN RemoteResult(content)
                                         ELSE RemoteResult(Undefined)]}
    /\ lastClose' = Touched(lastClose)
    /\ UNCHANGED <<clientRegistry, transportRegistry, transports, closer,
                   closeAllCalls>>

(***************************************************************************)
(* client.ts: closeAllConnections, lines 211-221.  The loop iterates the   *)
(* live Map: an entry deleted during the iteration is not visited, an      *)
(* entry added during it is.  closer.pos counts the entries of             *)
(* transportRegistry the iterator has passed.                              *)
(***************************************************************************)
NoCloser == [active |-> FALSE, pos |-> 0, name |-> <<>>, tid |-> 0]

NoClose ==
    [n |-> 0, startNames |-> {}, attempted |-> {}, attemptedTids |-> {},
     failed |-> {}, returned |-> FALSE, raised |-> FALSE, quiet |-> FALSE]

\* a loop whose body lets the failure of transport.close() through
CatchesCloseErrorNot == FALSE

\* the try/catch of lines 213-219 catches what transport.close() raises
CatchesCloseError == TRUE

\* the iterator yields the entry at position pos and the loop body calls
\* transport.close() on it
Visiting(reg, pos) ==
    [active |-> TRUE, pos |-> pos, name |-> reg[pos].name, tid |-> reg[pos].tid]

\* closeAllConnections() is invoked: up to the first `await transport.close()`,
\* or to its return when transportRegistry is empty
CloseAllBegin ==
    /\ ~closer.active
    /\ closeAllCalls < MaxCloseAlls
    /\ closeAllCalls' = closeAllCalls + 1
    /\ IF transportRegistry = <<>>
       THEN /\ closer' = NoCloser
            /\ lastClose' = [NoClose EXCEPT !.n = closeAllCalls + 1,
                                            !.returned = TRUE, !.quiet = TRUE]
       ELSE /\ closer' = Visiting(transportRegistry, 1)
            /\ lastClose' =
                 [NoClose EXCEPT !.n = closeAllCalls + 1,
                                 !.startNames = RegisteredNames(transportRegistry),
                                 !.attempted = {transportRegistry[1].name},
                                 !.attemptedTids = {transportRegistry[1].tid}]
    /\ UNCHANGED <<clientRegistry, transportRegistry, transports, calls, wire>>

\* `await transport.close()` settles: the two deletes on success, the catch
\* on failure, then the next entry of the iteration or the return
CloseSettle(ok) ==
    /\ closer.active
    /\ LET name == closer.name
           idx == TransportIndex(transportRegistry, name)
           reg1 == IF ok THEN TransportDelete(transportRegistry, name)
                         ELSE transportRegistry
           pos1 == IF ok /\ idx > 0 /\ idx <= closer.pos
                   THEN closer.pos - 1 ELSE closer.pos
           lc == IF ok THEN lastClose
                       ELSE [lastClose EXCEPT !.failed = @ \cup {name}]
       IN  /\ transportRegistry' = reg1
           /\ clientRegistry' =
                IF ok THEN ClientDelete(clientRegistry, name) ELSE clientRegistry
           /\ transports' =
                IF ok THEN [transports EXCEPT ![closer.tid].st = "closed"]
                      ELSE transports
           /\ logs' =
                IF ok \/ ~CatchesCloseError THEN logs
                ELSE LogsAfter(captured, logs, "error",
                        <<"Error closing connection to " \o Join(name) \o ": {}">>)
           /\ IF ~ok /\ ~CatchesCloseError
              THEN /\ closer' = NoCloser
                   /\ lastClose' = [lc EXCEPT !.returned = TRUE, !.raised = TRUE,
                                              !.quiet = TRUE]
              ELSE IF pos1 < Len(reg1)
              THEN /\ closer' = Visiting(reg1, pos1 + 1)
                   /\ lastClose' =
                        [lc EXCEPT !.attempted = @ \cup {reg1[pos1 + 1].name},
                                   !.attemptedTids = @ \cup {reg1[pos1 + 1].tid}]
              ELSE /\ closer' = NoCloser
                   /\ lastClose' = [lc EXCEPT !.returned = TRUE, !.quiet = TRUE]
    /\ UNCHANGED <<calls, closeAllCalls, wire>>

(***************************************************************************)
(* executor.ts: initializeMCPTools.                                        *)
(***************************************************************************)
RECURSIVE ConfigFrom(_, _)
\* getMCPConfigFromEnv, lines 26-41: the keys of config in insertion order;
\* an entry JSON.parse rejects is reported and left out
ConfigFrom(e, config) ==
    IF e = <<>> THEN config
    ELSE LET serverName == toLowerCase(Head(e).key)
         IN  IF Head(e).value = "json"
                /\ \A i \in 1..Len(config) : config[i] # serverName
             THEN ConfigFrom(Tail(e), Append(config, serverName))
             ELSE ConfigFrom(Tail(e), config)

\* a getMCPConfigFromEnv that gives up on the whole environment when one
\* entry does not parse
getMCPConfigFromEnvAllOrNothing(e) ==
    IF \E i \in 1..Len(e) : e[i].value # "json" THEN <<>>
    ELSE ConfigFrom(e, <<>>)

getMCPConfigFromEnv(e) == ConfigFrom(e, <<>>)

ToolInfo(serverName, tool) ==
    [serverName |-> serverName, toolName |-> tool.name,
     functionName |-> toCamelCase(tool.name), required |-> tool.required,
     description |-> tool.description]

RECURSIVE MetadataOf(_)
\* lines 65-80: one toolsMetadata entry per tool of each provider, in order
MetadataOf(schemas) ==
    IF schemas = <<>> THEN <<>>
    ELSE [i \in 1..Len(Head(schemas).tools) |->
            ToolInfo(Head(schemas).serverName, Head(schemas).tools[i])]
         \o MetadataOf(Tail(schemas))

\* lines 82-100: global[serverName][functionName]; of two tools of a
\* provider with one functionName the later one is the installed binding
BindingsOf(metadata) ==
    [b \in {<<metadata[i].serverName, metadata[i].functionName>> :
               i \in 1..Len(metadata)} |->
        LET last == CHOOSE i \in 1..Len(metadata) :
                      /\ <<metadata[i].serverName, metadata[i].functionName>> = b
                      /\ \A j \in (i + 1)..Len(metadata) :
                           <<metadata[j].serverName, metadata[j].functionName>> # b
        IN  metadata[last]]

\* lines 84-94 of executor.ts: a value that is neither null nor an object is
\* wrapped under the only required property; main's bindings
\* (executor-utils.ts lines 202-204) pass the input on as it is
ProcessedInput(e, info, input) ==
    IF e = "runExecutor"
       /\ input.t # "null"
       /\ TypeOf(input) # "object"
       /\ Len(info.required) = 1
    THEN Val("object", "{" \o info.required[1] \o ":" \o StringOf(input) \o "}")
    ELSE input

(***************************************************************************)
(* converter.ts: fetchToolSchemas, as the engine sees it: one transport    *)
(* per provider in configuration order, its console writes, its failure.   *)
(***************************************************************************)
\* the two fetchToolSchemas of the repository: the one that intercepts the
\* raw messages (part_001 lines 246-320) and the one of converter.ts lines
\* 41-84
Converters == {"part_001", "converter.ts"}

\* lines 312-314 of part_001 close the transport in the catch block; the
\* catch block of converter.ts lines 77-80 does not
ClosesOnFailure(conv) == conv = "part_001"

\* lines 265-289 of part_001 keep the tools seen on the wire for the case
\* that listTools() rejects; converter.ts line 61 has listTools() only
UsesInterceptedData(conv) == conv = "part_001"

\* how `await client.listTools()` settled: with the decoded tools
\* ("decoded"), with an answer that holds no tools ("missing"), or rejected
\* ("failed")
ListResponse(how, tools) ==
    [how |-> how, tools |-> IF how = "decoded" THEN <<tools>> ELSE <<>>]

NoResponse == [how |-> "none", tools |-> <<>>]

\* a try/catch of lines 281-289 that keeps the payload seen on the wire
\* when there is one
RawAfterListPrefersWire(conv, raw, response) ==
    IF UsesInterceptedData(conv) /\ raw # <<>> THEN raw ELSE response.tools

\* rawToolsData after the try/catch of part_001 lines 281-289: the tools
\* of the answer when listTools() resolved, what onmessage stored when it
\* rejected; converter.ts line 61 has the tools of the answer only.  The
\* value is <<>> for null and undefined and <<tools>> for a tool list
RawAfterList(conv, raw, response) ==
    IF response.how = "failed" /\ UsesInterceptedData(conv)
    THEN raw
    ELSE response.tools

\* closeCalls: the transports transport.close() was called on;
\* rawToolsData, response: the variable of line 265 and the way listTools()
\* settled, for the provider the loop is at
NoFetch ==
    [st |-> "none", idx |-> 0, tid |-> 0, list |-> <<>>, err |-> Undefined,
     closeCalls |-> {}, rawToolsData |-> <<>>, response |-> NoResponse]

ListError == Val("Error", "tools/list failed")

NoToolsError == Val("Error", "Failed to retrieve tools data")

\* converter.ts line 62: toolsResponse.tools.length on an answer without tools
NoLengthError ==
    Val("Error", "Cannot read properties of undefined (reading 'length')")

CloseError == Val("Error", "Close failed")

SyntaxErrorValue == Val("Error", "Unexpected identifier")

StringifyError == Val("Error", "Do not know how to serialize a BigInt")

ConnectingText(serverName) ==
    "Connecting to MCP server: " \o Join(serverName) \o "..."

ConnectedText(serverName) == "Connected to " \o Join(serverName)

FoundText(serverName, n) ==
    "Found " \o ToString(n) \o " tools in " \o Join(serverName)

FallbackText == "SDK validation failed, using intercepted data..."

FetchErrorText(serverName) ==
    "Error connecting to " \o Join(serverName) \o ": {}"

\* global.__tools of lines 103-124 (210-231): servers() gives the keys of
\* the mcpConfig of this initialization; list, info and search read
\* toolsMetadata when they are called
ToolsNamespace(config) == [servers |-> config]

\* the handler once initializeMCPTools has returned: executor.ts lines
\* 137-139 (executeCode lines 280-286), `new AsyncFunction(code)` raising a
\* SyntaxError on code that does not compile
PcAfterInit == IF argv2 = "invalid" THEN "Failed" ELSE "Running"

OutcomeAfterInit ==
    IF argv2 = "invalid"
    THEN [kind |-> "err", val |-> SyntaxErrorValue]
    ELSE [kind |-> "none", val |-> Undefined]

(***************************************************************************)
(* The engine: runExecutor (executor-utils.ts lines 59-102) with the       *)
(* handler of executor.ts lines 134-140, and main with executeCode         *)
(* (executor-utils.ts lines 277-332).  process.exit() ends the process     *)
(* where it is called: the statements after it, the finally blocks of      *)
(* lines 98-101 and 329-331 among them, are not run, and the beforeExit    *)
(* listener of client.ts is not called on an explicit exit.                *)
(***************************************************************************)

\* the loop body of fetchToolSchemas for provider number i, up to
\* `await client.connect(transport)`
FetchVisit(i, cap, lg, out, config, list, trs, closed) ==
    /\ logs' = LogsAfter(cap, lg, "log", <<ConnectingText(config[i])>>)
    /\ stdout' = StdoutAfter(cap, out, "log", <<ConnectingText(config[i])>>)
    /\ transports' = Append(trs, Transport(config[i], "connecting", "fetch"))
    /\ fetch' = [st |-> "connecting", idx |-> i, tid |-> Len(trs) + 1,
                 list |-> list, err |-> Undefined, closeCalls |-> closed,
                 rawToolsData |-> <<>>, response |-> NoResponse]

\* an initializeMCPTools whose rejection no catch block takes: the process
\* ends with status 1 and without an envelope
InitFailsUncaught(x) ==
    /\ pc' = "Exited"
    /\ outcome' = outcome
    /\ exitCode' = 1

\* initializeMCPTools rejects with error x: runExecutor's catch takes it;
\* executeCode lets it through to main's catch, which reports it on
\* standard error and exits
InitFails(x) ==
    IF entry = "runExecutor"
    THEN /\ pc' = "Failed"
         /\ outcome' = [kind |-> "err", val |-> x]
         /\ exitCode' = exitCode
    ELSE /\ pc' = "Exited"
         /\ outcome' = outcome
         /\ exitCode' = 1

\* the try block of the loop body raises x, the fetch being f: part_001
\* goes on to the `await transport.close()` of its catch block, converter.ts
\* throws x again at once
FetchRaise(x, f) ==
    IF ClosesOnFailure(converter)
    THEN /\ fetch' = [f EXCEPT !.st = "closingFailed", !.err = x]
         /\ UNCHANGED <<pc, outcome, exitCode>>
    ELSE /\ fetch' = [f EXCEPT !.st = "failed", !.err = x,
                               !.rawToolsData = <<>>, !.response = NoResponse]
         /\ InitFails(x)

\* a test of the code argument that lets every value through
MissingCodeNever(code) == FALSE

\* `if (!code)` of line 62 (315): no argument, or the empty string
MissingCode(code) == code \in {"absent", "empty"}

\* the entry point from its first line to its first suspension
Start ==
    /\ pc = "Idle"
    /\ IF MissingCode(argv2)
       THEN /\ pc' = "Exited"
            /\ exitCode' = 1
            /\ UNCHANGED <<captured, logs, stdout, outcome, isInitialized,
                           mcpConfig, toolsMetadata, bindings, globalTools, fetch, transports>>
       ELSE LET config == getMCPConfigFromEnv(env)
                cap == (entry = "runExecutor")
            IN  /\ mcpConfig' = config
                /\ exitCode' = exitCode
                /\ UNCHANGED <<toolsMetadata, bindings, globalTools>>
                /\ IF config = <<>>
                   THEN /\ isInitialized' = TRUE
                        /\ captured' = TRUE
                        /\ pc' = PcAfterInit
                        /\ outcome' = OutcomeAfterInit
                        /\ UNCHANGED <<logs, stdout, fetch, transports>>
                   ELSE /\ isInitialized' = FALSE
                        /\ captured' = cap
                        /\ pc' = "Init"
                        /\ outcome' = outcome
                        /\ FetchVisit(1, cap, logs, stdout, config, <<>>,
                                      transports, {})
    /\ UNCHANGED <<worldVars, pureVars, userLogs, clientRegistry, transportRegistry,
                   calls, closer, closeAllCalls, lastClose,
                   wire>>

\* `await client.connect(transport)` of the fetch settles
FetchConnectSettle(ok) ==
    /\ pc = "Init"
    /\ fetch.st = "connecting"
    /\ LET name == mcpConfig[fetch.idx]
       IN  IF ok
           THEN /\ transports' = [transports EXCEPT ![fetch.tid].st = "open"]
                /\ logs' = LogsAfter(captured, logs, "log", <<ConnectedText(name)>>)
                /\ stdout' = StdoutAfter(captured, stdout, "log",
                                         <<ConnectedText(name)>>)
                /\ fetch' = [fetch EXCEPT !.st = "listing"]
                /\ UNCHANGED <<pc, outcome, exitCode>>
           ELSE /\ transports' = [transports EXCEPT ![fetch.tid].st = "failed"]
                /\ logs' = LogsAfter(captured, logs, "error",
                                     <<FetchErrorText(name)>>)
                /\ stdout' = stdout
                /\ FetchRaise(ConnectError, fetch)
    /\ UNCHANGED <<worldVars, pureVars, captured, isInitialized,
                   mcpConfig, toolsMetadata, bindings, globalTools, userLogs,
                   clientRegistry, transportRegistry, calls, closer,
                   closeAllCalls, lastClose,
                   wire>>

\* the onmessage of part_001 lines 268-275 sees a message whose result
\* holds tools, while listTools() is pending
FetchOnMessage(tools) ==
    /\ pc = "Init"
    /\ fetch.st = "listing"
    /\ UsesInterceptedData(converter)
    /\ fetch.rawToolsData # <<tools>>
    /\ fetch' = [fetch EXCEPT !.rawToolsData = <<tools>>]
    /\ UNCHANGED <<worldVars, pureVars, pc, captured, logs, stdout, exitCode,
                   outcome, isInitialized, mcpConfig, toolsMetadata, bindings,
                   globalTools, userLogs, registryVars>>

\* `await client.listTools()` settles, lines 281-307 (61-74): with the
\* decoded tools, with an answer that holds no tools, or with a failure,
\* which part_001 makes up for when onmessage has stored a tool list
FetchListSettle(how, tools) ==
    /\ pc = "Init"
    /\ fetch.st = "listing"
    /\ LET name == mcpConfig[fetch.idx]
           response == ListResponse(how, tools)
           data == RawAfterList(converter, fetch.rawToolsData, response)
           texts == IF how = "failed"
                    THEN <<FallbackText, FoundText(name, Len(data[1]))>>
                    ELSE <<FoundText(name, Len(data[1]))>>
           f == [fetch EXCEPT !.rawToolsData = data, !.response = response]
       IN  IF data # <<>>
           THEN /\ logs' = LogsAfter(captured, logs, "log", texts)
                /\ stdout' = StdoutAfter(captured, stdout, "log", texts)
                /\ fetch' = [f EXCEPT
                               !.st = "closing",
                               !.list = Append(@, [serverName |-> name,
                                                   tools |-> data[1]])]
                /\ UNCHANGED <<pc, outcome, exitCode>>
           ELSE /\ logs' = LogsAfter(captured, logs, "error",
                                     <<FetchErrorText(name)>>)
                /\ stdout' = stdout
                /\ FetchRaise(IF how = "missing"
                              THEN IF UsesInterceptedData(converter)
                                   THEN NoToolsError ELSE NoLengthError
                              ELSE ListError,
                              f)
    /\ UNCHANGED <<worldVars, pureVars, captured, isInitialized,
                   mcpConfig, toolsMetadata, bindings, globalTools, userLogs,
                   transports, clientRegistry, transportRegistry, calls,
                   closer, closeAllCalls, lastClose, wire>>

\* `await transport.close()` of line 309 (76) settles: the next provider, or the
\* return of fetchToolSchemas and the rest of initializeMCPTools and of the
\* handler up to the start of the user code
FetchCloseSettle(ok) ==
    /\ pc = "Init"
    /\ fetch.st = "closing"
    /\ LET name == mcpConfig[fetch.idx]
           closed == fetch.closeCalls \cup {fetch.tid}
       IN  IF ~ok
           THEN /\ logs' = LogsAfter(captured, logs, "error",
                                     <<FetchErrorText(name)>>)
                /\ FetchRaise(CloseError, [fetch EXCEPT !.closeCalls = closed])
                /\ UNCHANGED <<captured, stdout, isInitialized,
                               toolsMetadata, bindings, globalTools, transports>>
           ELSE IF fetch.idx < Len(mcpConfig)
           THEN /\ FetchVisit(fetch.idx + 1, captured, logs, stdout, mcpConfig,
                              fetch.list,
                              [transports EXCEPT ![fetch.tid].st = "closed"],
                              closed)
                /\ UNCHANGED <<pc, captured, outcome, exitCode, isInitialized,
                               toolsMetadata, bindings, globalTools>>
           ELSE /\ transports' = [transports EXCEPT ![fetch.tid].st = "closed"]
                /\ fetch' = [fetch EXCEPT !.st = "done", !.closeCalls = closed,
                                          !.rawToolsData = <<>>,
                                          !.response = NoResponse]
                /\ toolsMetadata' = toolsMetadata \o MetadataOf(fetch.list)
                /\ bindings' = BindingsOf(MetadataOf(fetch.list))
                /\ globalTools' = ToolsNamespace(mcpConfig)
                /\ isInitialized' = TRUE
                /\ captured' = TRUE
                /\ pc' = PcAfterInit
                /\ outcome' = OutcomeAfterInit
                /\ UNCHANGED <<logs, stdout, exitCode>>
    /\ UNCHANGED <<worldVars, pureVars, mcpConfig, userLogs, clientRegistry,
                   transportRegistry, calls, closer, closeAllCalls, lastClose,
                   wire>>

\* a catch block that goes on with the next provider instead of throwing
FetchFailCloseContinues(ok) ==
    /\ pc = "Init"
    /\ fetch.st = "closingFailed"
    /\ LET trs == IF ok THEN [transports EXCEPT ![fetch.tid].st = "closed"]
                        ELSE transports
           closed == fetch.closeCalls \cup {fetch.tid}
       IN  IF fetch.idx < Len(mcpConfig)
           THEN /\ FetchVisit(fetch.idx + 1, captured, logs, stdout, mcpConfig,
                              fetch.list, trs, closed)
                /\ UNCHANGED <<pc, outcome, exitCode>>
           ELSE /\ transports' = trs
                /\ fetch' = [fetch EXCEPT !.st = "failed", !.closeCalls = closed,
                                          !.rawToolsData = <<>>,
                                          !.response = NoResponse]
                /\ InitFails(fetch.err)
                /\ UNCHANGED <<logs, stdout>>
    /\ UNCHANGED <<worldVars, pureVars, captured, isInitialized,
                   mcpConfig, toolsMetadata, bindings, globalTools, userLogs, clientRegistry,
                   transportRegistry, calls, closer, closeAllCalls, lastClose,
                   wire>>

\* the `await transport.close()` of the catch block (line 313) settles, its
\* own failure swallowed, and the error is thrown again
FetchFailClose(ok) ==
    /\ pc = "Init"
    /\ fetch.st = "closingFailed"
    /\ transports' = IF ok THEN [transports EXCEPT ![fetch.tid].st = "closed"]
                           ELSE transports
    /\ fetch' = [fetch EXCEPT !.st = "failed",
                              !.closeCalls = @ \cup {fetch.tid},
                              !.rawToolsData = <<>>,
                              !.response = NoResponse]
    /\ InitFails(fetch.err)
    /\ UNCHANGED <<worldVars, pureVars, captured, logs, stdout, isInitialized, mcpConfig,
                   toolsMetadata, bindings, globalTools, userLogs, clientRegistry,
                   transportRegistry, calls, closer, closeAllCalls, lastClose,
                   wire>>

\* no function has been handed an argument on its own
IntrospectIdle ==
    /\ listed = Undefined
    /\ described = Undefined

NamesIdle ==
    /\ IntrospectIdle
    /\ toolName = Undefined
    /\ functionName = Undefined
    /\ provider = Undefined
    /\ splitParts = Undefined

PureIdle ==
    /\ NamesIdle
    /\ normalizedSchema = Undefined
    /\ reinits = 0
    /\ rawTool = Undefined
    /\ fetchedTool = Undefined
    /\ bindingCall = Undefined
    /\ forwarded = Undefined
    /\ keyword = Undefined
    /\ found = Undefined

\* the state before the entry point has run
EngineIdle ==
    /\ captured = FALSE
    /\ logs = <<>>
    /\ stdout = <<>>
    /\ exitCode = -1
    /\ outcome = [kind |-> "none", val |-> Undefined]
    /\ isInitialized = FALSE
    /\ mcpConfig = <<>>
    /\ toolsMetadata = <<>>
    /\ bindings = <<>>
    /\ globalTools = Undefined
    /\ fetch = NoFetch
    /\ userLogs = 0

RegistryEmpty ==
    /\ clientRegistry = NoMap
    /\ transportRegistry = <<>>
    /\ transports = <<>>
    /\ calls = <<>>
    /\ closer = NoCloser
    /\ closeAllCalls = 0
    /\ lastClose = NoClose
    /\ wire = {}

(***************************************************************************)
(* The user code: what the compiled function does between its start and    *)
(* its return or raise.                                                    *)
(***************************************************************************)
\* console.log / console.error / console.warn with one text
UserConsole(channel, text) ==
    /\ pc = "Running"
    /\ userLogs < MaxLogs
    /\ userLogs + Len(calls) < MaxUserSteps
    /\ userLogs' = userLogs + 1
    /\ logs' = LogsAfter(captured, logs, channel, <<text>>)
    /\ stdout' = StdoutAfter(captured, stdout, channel, <<text>>)
    /\ UNCHANGED <<worldVars, pureVars, pc, captured, exitCode, outcome, isInitialized,
                   mcpConfig, toolsMetadata, bindings, globalTools, fetch, registryVars>>

\* a call of the binding global[b[1]][b[2]] with input: executor.ts lines
\* 82-97, callTool lines 43-46, then callMCPTool
UserCall(b, input) ==
    /\ pc = "Running"
    /\ Len(calls) < MaxUserCalls
    /\ userLogs + Len(calls) < MaxUserSteps
    /\ b \in DOMAIN bindings
    /\ IssueCall(CombinedName(bindings[b].serverName, bindings[b].toolName),
                 ProcessedInput(entry, bindings[b], input))
    /\ UNCHANGED <<worldVars, pureVars, engineVars>>

\* a pending connect or remote call of the user code settles
UserConnectSettle(k, ok) ==
    /\ pc = "Running"
    /\ ConnectSettle(k, ok)
    /\ UNCHANGED <<worldVars, pureVars, engineVars>>

UserToolSettle(k, ok) ==
    /\ pc = "Running"
    /\ ToolSettle(k, ok)
    /\ UNCHANGED <<worldVars, pureVars, engineVars>>

\* the user code returns v
UserReturn(v) ==
    /\ pc = "Running"
    /\ pc' = "Succeeded"
    /\ outcome' = [kind |-> "ok", val |-> v]
    /\ UNCHANGED <<worldVars, pureVars, captured, logs, stdout, exitCode, isInitialized,
                   mcpConfig, toolsMetadata, bindings, globalTools, fetch, userLogs,
                   registryVars>>

\* the user code returns what call k resolved with
UserReturnContent(k) ==
    /\ k \in 1..Len(calls)
    /\ calls[k].st = "resolved"
    /\ UserReturn(calls[k].out)

\* the user code raises x
UserRaise(x) ==
    /\ pc = "Running"
    /\ pc' = "Failed"
    /\ outcome' = [kind |-> "err", val |-> x]
    /\ UNCHANGED <<worldVars, pureVars, captured, logs, stdout, exitCode, isInitialized,
                   mcpConfig, toolsMetadata, bindings, globalTools, fetch, userLogs,
                   registryVars>>

\* the user code awaits call k, which rejected, and does not catch
UserPropagate(k) ==
    /\ k \in 1..Len(calls)
    /\ calls[k].st = "rejected"
    /\ UserRaise(calls[k].out)

(***************************************************************************)
(* The engine after the handler has settled.                               *)
(***************************************************************************)
\* a success output that drops the returned value
SuccessOutputNull(result, lg) ==
    [result |-> Null, logs |-> lg, exitCode |-> 0, error |-> Undefined]

\* the output object of lines 75-79 (290-294)
SuccessOutput(result, lg) ==
    [result |-> result, logs |-> lg, exitCode |-> 0, error |-> Undefined]

\* a failure output without its error property
FailureOutputNoError(x, lg) ==
    [result |-> Null, logs |-> lg, exitCode |-> 1, error |-> Undefined]

\* the output object of lines 86-91 (299-304)
FailureOutput(x, lg) ==
    [result |-> Null, logs |-> lg, exitCode |-> 1,
     error |-> Val("string", ErrorText(x))]

\* JSON.stringify(output), as the object a reader of standard output parses
Stringify(output) ==
    [result |-> JsonOf(output.result), logs |-> output.logs,
     exitCode |-> output.exitCode, error |-> JsonOf(output.error)]

Output == IF outcome.kind = "ok" THEN SuccessOutput(outcome.val, logs)
                                 ELSE FailureOutput(outcome.val, logs)

\* a stop() that leaves the capturing functions in place
StopCaptureKeeps ==
    /\ pc \in {"Succeeded", "Failed"}
    /\ captured' = captured
    /\ pc' = "Stopped"
    /\ UNCHANGED <<worldVars, pureVars, logs, stdout, exitCode,
                   outcome, isInitialized, mcpConfig, toolsMetadata, bindings, globalTools,
                   fetch, userLogs, registryVars>>

\* logCapture.stop(), lines 73 and 84 (288 and 297)
StopCapture ==
    /\ pc \in {"Succeeded", "Failed"}
    /\ captured' = FALSE
    /\ pc' = "Stopped"
    /\ UNCHANGED <<worldVars, pureVars, logs, stdout, exitCode, outcome, isInitialized,
                   mcpConfig, toolsMetadata, bindings, globalTools, fetch, userLogs,
                   registryVars>>

\* originalConsole.log(JSON.stringify(output)), lines 80 and 95 (322).  When
\* JSON.stringify raises on the result, runExecutor's catch takes the
\* TypeError; main's catch reports it on standard error and exits
WriteEnvelope ==
    /\ pc = "Stopped"
    /\ IF outcome.kind = "ok" /\ StringifyThrows(outcome.val)
       THEN IF entry = "runExecutor"
            THEN /\ pc' = "Failed"
                 /\ outcome' = [kind |-> "err", val |-> StringifyError]
                 /\ UNCHANGED <<stdout, exitCode>>
            ELSE /\ pc' = "Exited"
                 /\ exitCode' = 1
                 /\ UNCHANGED <<stdout, outcome>>
       ELSE /\ stdout' = Append(stdout, StdoutEnvelope(Stringify(Output)))
            /\ pc' = "Written"
            /\ UNCHANGED <<outcome, exitCode>>
    /\ UNCHANGED <<worldVars, pureVars, captured, logs, isInitialized, mcpConfig,
                   toolsMetadata, bindings, globalTools, fetch, userLogs, registryVars>>

\* process.exit(0) of line 81, process.exit(1) of line 96,
\* process.exit(result.exitCode) of line 323
ExitStatus == IF outcome.kind = "ok" THEN 0 ELSE 1

\* an entry point that returns instead of calling process.exit(): the
\* provider processes still open keep the process alive
ProcessExitNever ==
    /\ pc = "Written"
    /\ UNCHANGED vars

ProcessExit ==
    /\ pc = "Written"
    /\ pc' = "Exited"
    /\ exitCode' = ExitStatus
    /\ UNCHANGED <<worldVars, pureVars, captured, logs, stdout, outcome, isInitialized,
                   mcpConfig, toolsMetadata, bindings, globalTools, fetch, userLogs,
                   registryVars>>

Init ==
    /\ env \in Environments
    /\ entry \in Entries
    /\ argv2 \in CodeArgs
    /\ converter \in Converters
    /\ rawSchema = Undefined
    /\ PureIdle
    /\ pc = "Idle"
    /\ EngineIdle
    /\ RegistryEmpty

Next ==
    \/ Start
    \/ \E ok \in BOOLEAN : FetchConnectSettle(ok)
    \/ \E tools \in AdvertisedTools : FetchOnMessage(tools)
    \/ \E how \in {"decoded", "missing", "failed"},
          tools \in AdvertisedTools : FetchListSettle(how, tools)
    \/ \E ok \in BOOLEAN : FetchCloseSettle(ok)
    \/ \E ok \in BOOLEAN : FetchFailClose(ok)
    \/ \E channel \in ConsoleChannels, text \in ConsoleTexts :
         UserConsole(channel, text)
    \/ \E b \in DOMAIN bindings, input \in Inputs : UserCall(b, input)
    \/ \E k \in 1..Len(calls), ok \in BOOLEAN : UserConnectSettle(k, ok)
    \/ \E k \in 1..Len(calls), ok \in BOOLEAN : UserToolSettle(k, ok)
    \/ \E v \in ReturnValues : UserReturn(v)
    \/ \E k \in 1..Len(calls) : UserReturnContent(k)
    \/ \E x \in RaisedValues : UserRaise(x)
    \/ \E k \in 1..Len(calls) : UserPropagate(k)
    \/ StopCapture
    \/ WriteEnvelope
    \/ ProcessExit

Spec == Init /\ [][Next]_vars

(***************************************************************************)
(* The client module on its own, driven as its tests drive it: callMCPTool *)
(* and closeAllConnections invoked in any order, calls left pending or     *)
(* awaited.                                                                *)
(***************************************************************************)
ServerA == <<"a">>

ServerB == <<"b">>

ToolT == <<"t">>

\* the identifiers the harness passes to callMCPTool
HarnessIds ==
    {CombinedName(ServerA, ToolT), CombinedName(ServerB, ToolT),
     <<"a", "_", "t">>, CombinedName(CombinedName(ServerA, ToolT), ToolT),
     CombinedName(<<>>, ToolT), CombinedName(ServerA, <<>>)}

HarnessInput == Val("object", "{}")

\* the environments the client module is driven under: two configured
\* providers, or one whose configuration JSON.parse rejects and none for
\* the other
RegistryEnvironments ==
    {<<EnvEntry(<<"A">>, "json"), EnvEntry(<<"B">>, "json")>>,
     <<EnvEntry(<<"A">>, "malformed")>>}

InitRegistry ==
    /\ env \in RegistryEnvironments
    /\ entry = "none"
    /\ argv2 = "absent"
    /\ converter = "part_001"
    /\ rawSchema = Undefined
    /\ PureIdle
    /\ pc = "Harness"
    /\ EngineIdle
    /\ RegistryEmpty

HarnessCall ==
    /\ pc = "Harness"
    /\ Len(calls) < MaxCalls
    /\ \E id \in HarnessIds : IssueCall(id, HarnessInput)
    /\ UNCHANGED <<worldVars, pureVars, engineVars>>

HarnessConnectSettle ==
    /\ pc = "Harness"
    /\ \E k \in 1..Len(calls), ok \in BOOLEAN : ConnectSettle(k, ok)
    /\ UNCHANGED <<worldVars, pureVars, engineVars>>

HarnessToolSettle ==
    /\ pc = "Harness"
    /\ \E k \in 1..Len(calls), ok \in BOOLEAN : ToolSettle(k, ok)
    /\ UNCHANGED <<worldVars, pureVars, engineVars>>

HarnessCloseAll ==
    /\ pc = "Harness"
    /\ CloseAllBegin
    /\ UNCHANGED <<worldVars, pureVars, engineVars>>

HarnessCloseSettle ==
    /\ pc = "Harness"
    /\ \E ok \in BOOLEAN : CloseSettle(ok)
    /\ UNCHANGED <<worldVars, pureVars, pc, captured, stdout, exitCode, outcome,
                   isInitialized, mcpConfig, toolsMetadata, bindings, globalTools, fetch,
                   userLogs>>

NextRegistry ==
    \/ HarnessCall
    \/ HarnessConnectSettle
    \/ HarnessToolSettle
    \/ HarnessCloseAll
    \/ HarnessCloseSettle

SpecRegistry == InitRegistry /\ [][NextRegistry]_vars

(***************************************************************************)
(* Properties of the client module (SpecRegistry).                         *)
(***************************************************************************)
\* the transports getOrCreateClient created for serverName
CallTransports(serverName) ==
    {i \in 1..Len(transports) :
        transports[i].origin = "call" /\ transports[i].server = serverName}

ServerNames == {transports[i].server : i \in 1..Len(transports)}

\* C2: in every reachable state at most one live Connection exists per
\* providerName, whatever the interleaving of the callTool invocations
C2_OneLiveConnectionPerProvider ==
    \A name \in ServerNames :
        Cardinality({i \in CallTransports(name) : transports[i].st = "open"}) <= 1

\* C3: when closeAllConnections() has returned the registry is empty,
\* whether or not closing a transport succeeded
C3_CloseAllEmptiesRegistry ==
    lastClose.quiet => (transportRegistry = <<>> /\ DOMAIN clientRegistry = {})

\* C4: closeAllConnections() called a second time right after it returned
\* finds the registry empty, closes no transport, does not raise and leaves
\* the registry empty
C4_CloseAllIdempotent ==
    [][(lastClose.quiet /\ closeAllCalls' = closeAllCalls + 1)
         => /\ transportRegistry = <<>>
            /\ ~closer'.active
            /\ ~lastClose'.raised
            /\ transportRegistry' = <<>>]_vars

\* C5: closeAllConnections() never raises, and when it has returned a close
\* was attempted for every provider that was registered when it was called,
\* whichever closes failed
C5_CloseAllBestEffort ==
    lastClose.returned =>
        /\ ~lastClose.raised
        /\ lastClose.startNames \subseteq lastClose.attempted

\* C5 witness: two providers were registered, both closes failed, and
\* closeAllConnections() returned
C5_Witness ==
    /\ lastClose.returned
    /\ Cardinality(lastClose.startNames) = 2
    /\ lastClose.failed = lastClose.startNames

\* the calls were issued one after the other, each settled before the next,
\* and closeAllConnections() was not called
Sequential ==
    /\ closeAllCalls = 0
    /\ \A k \in 1..Len(calls) : ~calls[k].overlapped

\* C6 as stated: sequential calls to one provider launch the provider
\* process exactly once, whatever the outcome of the handshake
C6_SequentialCallsLaunchOnce ==
    Sequential =>
        \A name \in ServerNames : Cardinality(CallTransports(name)) <= 1

\* C6 amended: in sequential calls to one provider, every call issued after
\* a call whose handshake succeeded uses the transport of that call and
\* launches none
C6_SequentialCallsReuse ==
    Sequential =>
        \A k1, k2 \in 1..Len(calls) :
            (/\ k1 < k2
             /\ calls[k1].server = calls[k2].server
             /\ calls[k1].tid > 0
             /\ transports[calls[k1].tid].st = "open")
            => calls[k2].tid = calls[k1].tid

\* C6 witness: two sequential calls to one provider have both resolved on
\* the one transport the first launched
C6_Witness ==
    /\ Sequential
    /\ \E k1, k2 \in 1..Len(calls) :
         /\ k1 < k2
         /\ calls[k1].st = "resolved"
         /\ calls[k2].st = "resolved"
         /\ calls[k1].tid = calls[k2].tid
         /\ Cardinality(CallTransports(calls[k1].server)) = 1

(***************************************************************************)
(* Properties of the engine (Spec).                                        *)
(***************************************************************************)
\* the usage check of lines 62-65 (315-318) let the invocation through
PassedUsageCheck == argv2 \notin {"absent", "empty"}

\* the envelopes written to standard output
Envelopes ==
    {stdout[i].body[1] : i \in {j \in 1..Len(stdout) : stdout[j].kind = "envelope"}}

EnvelopeCount ==
    Cardinality({j \in 1..Len(stdout) : stdout[j].kind = "envelope"})

\* C1: when a process started through runExecutor has terminated after
\* passing the usage check, closeAllConnections() has been invoked
C1_CloseAllBeforeExit ==
    (entry = "runExecutor" /\ pc = "Exited" /\ PassedUsageCheck)
        => closeAllCalls > 0

\* C7: every envelope written has exitCode 1 exactly when it has an error
\* field, and result null when exitCode is 1; never more than one envelope
\* is written, and an invocation of runExecutor that passed the usage check
\* and has terminated has written exactly one
C7_EnvelopeWellFormedAndSingle ==
    /\ \A e \in Envelopes :
         /\ e.exitCode \in {0, 1}
         /\ (e.exitCode = 1) <=> (e.error # Absent)
         /\ (e.exitCode = 1) => (e.result = Null)
    /\ EnvelopeCount <= 1
    /\ (entry = "runExecutor" /\ pc = "Exited" /\ PassedUsageCheck)
         => EnvelopeCount = 1

\* C7 witness: runExecutor has terminated after user code raised, with its
\* one envelope carrying exitCode 1
C7_Witness ==
    /\ entry = "runExecutor"
    /\ pc = "Exited"
    /\ outcome.kind = "err"
    /\ \E e \in Envelopes : e.exitCode = 1

\* C8: when user code returned a JSON-serializable value and the process
\* has terminated, the one envelope has exitCode 0, no error field and the
\* returned value as result
C8_SuccessEnvelope ==
    (pc = "Exited" /\ outcome.kind = "ok" /\ JsonSerializable(outcome.val))
        => /\ EnvelopeCount = 1
           /\ \A e \in Envelopes :
                /\ e.exitCode = 0
                /\ e.error = Absent
                /\ e.result = outcome.val

\* C8 witness: the user code returned the number 2 and the process has
\* terminated
C8_Witness ==
    /\ pc = "Exited"
    /\ outcome = [kind |-> "ok", val |-> Val("number", "2")]
    /\ EnvelopeCount = 1

\* the text the claim expects in the error field for a raised value: the
\* message of an Error, the string form of anything else
MessageOrStringForm(x) ==
    CASE x.t = "Error" -> x.v
      [] x.t = "string" -> x.v
      [] x.t = "undefined" -> "undefined"
      [] x.t = "null" -> "null"
      [] OTHER -> "[object Object]"

\* the handler raised, and the entry point wrote an envelope and terminated
RaisedAndExited ==
    pc = "Exited" /\ outcome.kind = "err" /\ EnvelopeCount > 0

\* C9 as stated: after a raise the envelope has exitCode 1, result null and
\* error a non-empty string equal to the message or string form
C9_FailureEnvelopeNonEmpty ==
    RaisedAndExited =>
        \A e \in Envelopes :
            /\ e.exitCode = 1
            /\ e.result = Null
            /\ e.error = Val("string", MessageOrStringForm(outcome.val))
            /\ e.error.v # ""

\* C9 amended: after a raise the envelope has exitCode 1, result null and
\* error a string equal to the message or string form, which is the empty
\* string when the message is empty
C9_FailureEnvelope ==
    /\ (pc = "Exited" /\ outcome.kind = "err" /\ entry = "runExecutor")
         => EnvelopeCount = 1
    /\ RaisedAndExited =>
         \A e \in Envelopes :
            /\ e.exitCode = 1
            /\ e.result = Null
            /\ e.error = Val("string", MessageOrStringForm(outcome.val))

\* C9 witness: the user code raised an Error with an empty message and the
\* envelope carries the empty string as error
C9_Witness ==
    /\ RaisedAndExited
    /\ outcome.val = Val("Error", "")
    /\ \E e \in Envelopes : e.error = Val("string", "")

\* C10: when an invocation that passed the usage check has terminated,
\* standard output holds one envelope and nothing else, and the process
\* exit status is the exitCode of that envelope
C10_OneEnvelopeOnStdout ==
    (pc = "Exited" /\ PassedUsageCheck)
        => /\ Len(stdout) = 1
           /\ stdout[1].kind = "envelope"
           /\ stdout[1].body[1].exitCode = exitCode

C12_NoWritesNoLogs ==
    (pc = "Exited" /\ outcome.kind = "ok" /\ userLogs = 0)
        => \A e \in Envelopes : e.logs = <<>>

\* C13: in the state the envelope is written from and in every state that
\* has an envelope on standard output the console functions are the
\* original ones
C13_RestoredBeforeEnvelope ==
    (pc = "Stopped" \/ EnvelopeCount > 0) => ~captured

\* C13 witness: the process has terminated on the Failed path after a
\* captured console write, with its envelope written
C13_Witness ==
    /\ pc = "Exited"
    /\ outcome.kind = "err"
    /\ userLogs = 1
    /\ logs # <<>>
    /\ EnvelopeCount = 1
    /\ ~captured

(***************************************************************************)
(* Properties of callMCPTool (SpecRegistry, and Spec for the envelope).    *)
(***************************************************************************)
\* the identifier splits on "__" into exactly two non-empty parts
WellFormedId(id) ==
    /\ Len(Split(id)) = 2
    /\ Split(id)[1] # <<>>
    /\ Split(id)[2] # <<>>

\* C14: a call whose identifier does not split into exactly two non-empty
\* parts is rejected with the invalid-identifier error, launches nothing
\* and sends no remote call
C14_InvalidIdentifierRejected ==
    \A k \in 1..Len(calls) :
        ~WellFormedId(calls[k].id)
            => /\ calls[k].st = "rejected"
               /\ calls[k].out =
                    Val("Error", "Invalid tool name format: " \o Join(calls[k].id)
                          \o ". Expected format: \"servername__toolname\"")
               /\ calls[k].tid = 0
               /\ \A w \in wire : w.call # k

\* the process environment has no MCP_SERVER_ entry for the provider part
\* of the identifier of call k
NoConfigurationFor(k) ==
    /\ Len(Split(calls[k].id)) = 2
    /\ \A i \in 1..Len(env) :
         env[i].key # toUpperCase(Split(calls[k].id)[1])

\* C15: a call under a provider name without configuration entry is
\* rejected, before anything is launched, with an error whose message names
\* the provider; when the user code lets that error through, the one
\* envelope written has exitCode 1
C15_ConfigurationNotFound ==
    \A k \in 1..Len(calls) :
        NoConfigurationFor(k)
            => /\ calls[k].st = "rejected"
               /\ calls[k].tid = 0
               /\ calls[k].out =
                    Val("Error",
                        "MCP server configuration not found for: "
                          \o Join(Split(calls[k].id)[1])
                          \o ". Expected environment variable: MCP_SERVER_"
                          \o Join(toUpperCase(Split(calls[k].id)[1])))
               /\ (pc = "Exited" /\ outcome = [kind |-> "err", val |-> calls[k].out])
                    => /\ EnvelopeCount = 1
                       /\ \A e \in Envelopes : e.exitCode = 1

\* C15 witness: the user code called a binding of a provider that has no
\* entry under the name callMCPTool looks up, let the error through, and
\* the process has terminated with its envelope
C15_Witness ==
    /\ pc = "Exited"
    /\ \E k \in 1..Len(calls) :
         /\ NoConfigurationFor(k)
         /\ outcome = [kind |-> "err", val |-> calls[k].out]
    /\ \E e \in Envelopes : e.exitCode = 1

\* C16: every remote call sent names the tool part of the identifier and
\* carries the input of the call, and a call that resolved returned the
\* content of the answer to its remote call
C16_RemoteCallAndContent ==
    /\ \A w \in wire :
         /\ WellFormedId(calls[w.call].id) =>
              w.request.name = Split(calls[w.call].id)[2]
         /\ w.request.arguments = calls[w.call].input
         /\ w.ok => /\ calls[w.call].st = "resolved"
                    /\ calls[w.call].out = w.result.content
    /\ \A k \in 1..Len(calls) :
         calls[k].st = "resolved"
            => \E w \in wire : w.call = k /\ w.ok

\* C16 witness: a call to a__t of a configured provider resolved with the
\* content the provider answered
C16_Witness ==
    \E w \in wire :
        /\ w.ok
        /\ calls[w.call].id = CombinedName(ServerA, ToolT)
        /\ w.request.name = ToolT
        /\ calls[w.call].out = Val("string", "text")

\* C17: a call whose handshake failed is rejected with the error of the
\* handshake and its transport is in neither registry; in sequential calls
\* the provider is then not registered, and the next call to it launches a
\* new transport
C17_HandshakeFailurePropagates ==
    \A k \in 1..Len(calls) :
        (calls[k].tid > 0 /\ transports[calls[k].tid].st = "failed")
            => /\ calls[k].st = "rejected"
               /\ calls[k].out = ConnectError
               /\ \A n \in DOMAIN clientRegistry :
                    clientRegistry[n] # calls[k].tid
               /\ \A i \in 1..Len(transportRegistry) :
                    transportRegistry[i].tid # calls[k].tid
               /\ (Sequential /\ k = Len(calls))
                    => /\ calls[k].server \notin DOMAIN clientRegistry
                       /\ calls[k].server \notin RegisteredNames(transportRegistry)
               /\ (Sequential /\ k < Len(calls)
                      /\ calls[k + 1].server = calls[k].server)
                    => /\ calls[k + 1].tid > calls[k].tid
                       /\ transports[calls[k + 1].tid].origin = "call"

\* C17 witness: the handshake of the first call failed and the next call to
\* the same provider launched a second transport and connected
C17_Witness ==
    /\ Sequential
    /\ Len(calls) = 2
    /\ calls[1].tid = 1
    /\ Len(transports) = 2
    /\ transports[1].st = "failed"
    /\ calls[1].out = ConnectError
    /\ calls[2].server = calls[1].server
    /\ calls[2].tid = 2
    /\ transports[2].st = "open"

(***************************************************************************)
(* Properties of fetchToolSchemas (Spec).                                  *)
(***************************************************************************)
\* the transports fetchToolSchemas created
FetchIds == {i \in 1..Len(transports) : transports[i].origin = "fetch"}

\* C18: the transports of the fetch are those of the providers in
\* configuration order; the entries gathered are those of the providers
\* before the current one, and of all of them, in order, when the fetch has
\* returned; once the fetch has failed at provider k the error has
\* propagated, nothing was returned to initializeMCPTools, and no transport
\* exists for a provider after k
C18_FetchInOrderFirstFailureFatal ==
    /\ \A i \in FetchIds :
         /\ Cardinality({j \in FetchIds : j <= i}) <= Len(mcpConfig)
         /\ transports[i].server =
              mcpConfig[Cardinality({j \in FetchIds : j <= i})]
    /\ Cardinality(FetchIds) = fetch.idx
    /\ \A i \in 1..Len(fetch.list) : fetch.list[i].serverName = mcpConfig[i]
    /\ fetch.st \in {"connecting", "listing"} => Len(fetch.list) = fetch.idx - 1
    /\ fetch.st = "done" => Len(fetch.list) = Len(mcpConfig)
    /\ fetch.st = "failed"
         => /\ ~isInitialized
            /\ toolsMetadata = <<>>
            /\ bindings = <<>>
            /\ calls = <<>>
            /\ entry = "runExecutor"
                 => outcome = [kind |-> "err", val |-> fetch.err]
            /\ entry = "main" => (pc = "Exited" /\ exitCode = 1)

\* C18 witness: of two configured providers the fetch of the first failed,
\* and the process has terminated without a transport for the second
C18_Witness ==
    /\ pc = "Exited"
    /\ Len(mcpConfig) = 2
    /\ fetch.st = "failed"
    /\ fetch.idx = 1
    /\ Cardinality(FetchIds) = 1

\* C19: once the fetcher has left a provider behind (it went on to the next
\* provider, returned, or threw), transport.close() was called on the
\* transport of that provider
C19_FetchTransportClosed ==
    \A i \in FetchIds :
        (i # fetch.tid \/ fetch.st \in {"done", "failed"})
            => i \in fetch.closeCalls

(***************************************************************************)
(* converter.ts: normalizeSchema (part_001 lines 223-238), applied to the  *)
(* inputSchema of each tool at line 300.  A schema is undefined, null or   *)
(* an object; of an object the model keeps what its type, properties and   *)
(* required properties hold and whether it has a $schema property.         *)
(***************************************************************************)
SchemaValue(kind, type, properties, required, dollarSchema) ==
    [kind |-> kind, type |-> type, properties |-> properties,
     required |-> required, dollarSchema |-> dollarSchema]

\* what the type property may hold: nothing, the empty string, a type name
SchemaTypes == {"absent", "", "object", "string"}

\* what the properties property may hold: nothing, null, an object
SchemaProperties == {"absent", "null", "object"}

\* what the required property may hold: nothing, an array, a string
SchemaRequireds == {"absent", "array", "string"}

Schemas ==
    {SchemaValue("undefined", "absent", "absent", "absent", FALSE),
     SchemaValue("null", "absent", "absent", "absent", FALSE)}
    \cup {SchemaValue("object", t, p, r, d) :
            t \in SchemaTypes, p \in SchemaProperties, r \in SchemaRequireds,
            d \in BOOLEAN}

\* !x for a property of a schema
Falsy(x) == x \in {"absent", "null", ""}

\* a normalizeSchema that returns what it was given
normalizeSchemaUnchanged(schema) == schema

\* lines 223-238
normalizeSchema(schema) ==
    IF schema.kind \in {"undefined", "null"}
    THEN SchemaValue("object", "object", "emptyObject", "emptyArray", FALSE)
    ELSE IF Falsy(schema.type)
    THEN [schema EXCEPT
            !.type = "object",
            !.properties = IF Falsy(@) THEN "emptyObject" ELSE @,
            !.required = IF Falsy(@) THEN "emptyArray" ELSE @]
    ELSE schema

InitNormalize ==
    /\ env = <<>>
    /\ entry = "none"
    /\ argv2 = "absent"
    /\ converter = "part_001"
    /\ rawSchema \in Schemas
    /\ normalizedSchema = SchemaValue("undefined", "absent", "absent", "absent", FALSE)
    /\ reinits = 0
    /\ rawTool = Undefined
    /\ fetchedTool = Undefined
    /\ bindingCall = Undefined
    /\ forwarded = Undefined
    /\ keyword = Undefined
    /\ found = Undefined
    /\ NamesIdle
    /\ pc = "Normalize"
    /\ EngineIdle
    /\ RegistryEmpty

\* line 300: inputSchema: normalizeSchema(tool.inputSchema)
Normalize ==
    /\ pc = "Normalize"
    /\ pc' = "Normalized"
    /\ normalizedSchema' = normalizeSchema(rawSchema)
    /\ UNCHANGED <<reinits, rawTool, fetchedTool, bindingCall, forwarded,
                   keyword, found, nameVars>>
    /\ UNCHANGED <<worldVars, captured, logs, stdout, exitCode, outcome,
                   isInitialized, mcpConfig, toolsMetadata, bindings, globalTools, fetch,
                   userLogs, registryVars>>

NextNormalize == Normalize

SpecNormalize == InitNormalize /\ [][NextNormalize]_vars

(***************************************************************************)
(* Properties of normalizeSchema (SpecNormalize).                          *)
(***************************************************************************)
\* the value is an object with type "object", an object as properties and
\* an array as required
NormalShape(schema) ==
    /\ schema.kind = "object"
    /\ schema.type = "object"
    /\ schema.properties \in {"object", "emptyObject"}
    /\ schema.required \in {"array", "emptyArray"}

engineData ==
    <<captured, logs, stdout, exitCode, outcome, isInitialized, mcpConfig,
      toolsMetadata, bindings, globalTools, fetch, userLogs>>

SchemaUndefined == SchemaValue("undefined", "absent", "absent", "absent", FALSE)

\* { type: "object", properties: {}, required: [] }
DefaultSchema ==
    SchemaValue("object", "object", "emptyObject", "emptyArray", FALSE)

WireTool(name, description, inputSchema, outputSchema) ==
    [name |-> name, description |-> description, inputSchema |-> inputSchema,
     outputSchema |-> outputSchema]

\* the outputSchema values a provider may send: none, null, one with only
\* $schema, one with a type
OutputSchemas ==
    {SchemaUndefined,
     SchemaValue("null", "absent", "absent", "absent", FALSE),
     SchemaValue("object", "absent", "absent", "absent", TRUE),
     SchemaValue("object", "object", "object", "array", FALSE)}

WireTools ==
    {WireTool(<<"t">>, "d", i, o) : i \in Schemas, o \in OutputSchemas}

\* the map callback of part_001 lines 297-302: inputSchema is normalized,
\* outputSchema is normalized when it is truthy and undefined otherwise;
\* the one of converter.ts lines 64-69 copies both
ToolSchemaOf(conv, tool) ==
    IF conv = "part_001"
    THEN [name |-> tool.name, description |-> tool.description,
          inputSchema |-> normalizeSchema(tool.inputSchema),
          outputSchema |-> IF tool.outputSchema.kind = "object"
                           THEN normalizeSchema(tool.outputSchema)
                           ELSE SchemaUndefined]
    ELSE [name |-> tool.name, description |-> tool.description,
          inputSchema |-> tool.inputSchema,
          outputSchema |-> tool.outputSchema]

InitToolSchema ==
    /\ env = <<>>
    /\ entry = "none"
    /\ argv2 = "absent"
    /\ converter \in Converters
    /\ rawSchema = Undefined
    /\ normalizedSchema = Undefined
    /\ reinits = 0
    /\ rawTool \in WireTools
    /\ fetchedTool = Undefined
    /\ bindingCall = Undefined
    /\ forwarded = Undefined
    /\ keyword = Undefined
    /\ found = Undefined
    /\ NamesIdle
    /\ pc = "MapTool"
    /\ EngineIdle
    /\ RegistryEmpty

MapTool ==
    /\ pc = "MapTool"
    /\ pc' = "Mapped"
    /\ fetchedTool' = ToolSchemaOf(converter, rawTool)
    /\ UNCHANGED <<normalizedSchema, reinits, rawTool, bindingCall, forwarded,
                   keyword, found, nameVars>>
    /\ UNCHANGED <<worldVars, engineData, registryVars>>

NextToolSchema == MapTool

SpecToolSchema == InitToolSchema /\ [][NextToolSchema]_vars

(***************************************************************************)
(* Properties of the fetched ToolSchema (SpecToolSchema).                  *)
(***************************************************************************)
\* a present schema without type came back with type "object", with its
\* properties and required or empty ones in their place, and with its other
\* fields as they were
Backfilled(raw, fetched) ==
    /\ fetched.kind = "object"
    /\ fetched.type = "object"
    /\ fetched.properties =
         IF raw.properties = "absent" THEN "emptyObject" ELSE raw.properties
    /\ fetched.required =
         IF raw.required = "absent" THEN "emptyArray" ELSE raw.required
    /\ fetched.dollarSchema = raw.dollarSchema

SchemaAsPolicy(raw, fetched) ==
    /\ raw.kind = "undefined" => fetched = DefaultSchema
    /\ (raw.kind = "object" /\ raw.type = "absent"
        /\ raw.properties # "null")
         => Backfilled(raw, fetched)

\* C21: for every tool fetchToolSchemas returns, an absent inputSchema and
\* an absent outputSchema are each replaced by the default object schema,
\* and a present schema without type gets type "object", empty defaults for
\* missing properties and required, and keeps its other fields
C21_FetchedSchemasNormalized ==
    pc = "Mapped"
        => /\ SchemaAsPolicy(rawTool.inputSchema, fetchedTool.inputSchema)
           /\ SchemaAsPolicy(rawTool.outputSchema, fetchedTool.outputSchema)

(***************************************************************************)
(* executor.ts: one binding called on its own, lines 82-97 (202-204).      *)
(***************************************************************************)
\* what a caller may pass to a binding: scalars, nothing, null, an object,
\* an array
BindingArgs ==
    {Val("string", "abc"), Val("string", ""), Val("number", "2"),
     Val("boolean", "true"), Undefined, Null, Val("object", "{}"),
     Val("array", "[]")}

\* the required arrays of the tool's inputSchema
RequiredLists == {<<>>, <<"id">>, <<"q">>, <<"id", "q">>}

BindingCall(info, input) == [info |-> info, input |-> input]

InitBinding ==
    /\ env = <<>>
    /\ entry \in Entries
    /\ argv2 = "absent"
    /\ converter = "part_001"
    /\ rawSchema = Undefined
    /\ normalizedSchema = Undefined
    /\ reinits = 0
    /\ rawTool = Undefined
    /\ fetchedTool = Undefined
    /\ bindingCall \in {BindingCall(ToolInfo(ServerA, Tool(ToolT, r)), i) :
                          r \in RequiredLists, i \in BindingArgs}
    /\ forwarded = Undefined
    /\ keyword = Undefined
    /\ found = Undefined
    /\ NamesIdle
    /\ pc = "Binding"
    /\ EngineIdle
    /\ RegistryEmpty

\* the binding runs up to its call of callTool
Forward ==
    /\ pc = "Binding"
    /\ pc' = "Forwarded"
    /\ forwarded' = ProcessedInput(entry, bindingCall.info, bindingCall.input)
    /\ UNCHANGED <<normalizedSchema, reinits, rawTool, fetchedTool,
                   bindingCall, keyword, found, nameVars>>
    /\ UNCHANGED <<worldVars, engineData, registryVars>>

NextBinding == Forward

SpecBinding == InitBinding /\ [][NextBinding]_vars

(***************************************************************************)
(* Properties of a binding (SpecBinding).                                  *)
(***************************************************************************)
\* { [p]: value }
WrappedUnder(p, value) ==
    Val("object", "{" \o p \o ":" \o StringOf(value) \o "}")

\* a value that was passed and is neither null nor an object nor an array
ScalarArgument(x) == x.t \in {"string", "number", "boolean", "bigint"}

\* C22: a binding forwards {[p]: value} when the schema declares exactly one
\* required property p and the caller passes a non-null, non-structured
\* value; for structured input, null, no argument, and zero or two or more
\* required properties it forwards the input unchanged
C22_BindingCoercion ==
    pc = "Forwarded"
        => LET required == bindingCall.info.required
               input == bindingCall.input
           IN  IF Len(required) = 1 /\ ScalarArgument(input)
               THEN forwarded = WrappedUnder(required[1], input)
               ELSE forwarded = input

(***************************************************************************)
(* initializeMCPTools on its own: the entry point up to the start of the   *)
(* user code, with providers that answer tools/list with one of two tool   *)
(* lists, and initializeMCPTools() invoked again once it has settled.      *)
(***************************************************************************)
OtherTool == Tool(<<"u">>, <<>>)

HarnessToolLists == AdvertisedTools \cup {<<OtherTool>>}

\* an initializeMCPTools without the test of isInitialized
ReinitializeAlways ==
    /\ pc \in {"Running", "Failed"}
    /\ reinits < MaxReinits
    /\ reinits' = reinits + 1
    /\ LET config == getMCPConfigFromEnv(env)
       IN  /\ mcpConfig' = config
           /\ config # <<>>
           /\ pc' = "Init"
           /\ outcome' = [kind |-> "none", val |-> Undefined]
           /\ FetchVisit(1, captured, logs, stdout, config, <<>>,
                         transports, fetch.closeCalls)
           /\ UNCHANGED <<isInitialized, captured, exitCode, toolsMetadata,
                          bindings, globalTools>>
    /\ UNCHANGED <<worldVars, normalizedSchema, rawTool, fetchedTool,
                   bindingCall, forwarded, keyword, found, nameVars, userLogs,
                   clientRegistry, transportRegistry, calls, closer,
                   closeAllCalls, lastClose, wire>>

\* initializeMCPTools() is invoked once more, lines 48-63 (168-183): a
\* return at once when isInitialized is set, else the steps of the first
\* invocation up to `await client.connect(transport)` of the fetch
Reinitialize ==
    /\ pc \in {"Running", "Failed"}
    /\ reinits < MaxReinits
    /\ reinits' = reinits + 1
    /\ IF isInitialized
       THEN UNCHANGED <<pc, captured, logs, stdout, exitCode, outcome,
                        isInitialized, mcpConfig, toolsMetadata, bindings,
                        globalTools, fetch, transports>>
       ELSE LET config == getMCPConfigFromEnv(env)
            IN  /\ mcpConfig' = config
                /\ UNCHANGED <<captured, exitCode, toolsMetadata, bindings,
                               globalTools>>
                /\ IF config = <<>>
                   THEN /\ isInitialized' = TRUE
                        /\ pc' = "Running"
                        /\ outcome' = [kind |-> "none", val |-> Undefined]
                        /\ UNCHANGED <<logs, stdout, fetch, transports>>
                   ELSE /\ isInitialized' = FALSE
                        /\ pc' = "Init"
                        /\ outcome' = [kind |-> "none", val |-> Undefined]
                        /\ FetchVisit(1, captured, logs, stdout, config, <<>>,
                                      transports, fetch.closeCalls)
    /\ UNCHANGED <<worldVars, normalizedSchema, rawTool, fetchedTool,
                   bindingCall, forwarded, keyword, found, nameVars, userLogs,
                   clientRegistry, transportRegistry, calls, closer,
                   closeAllCalls, lastClose, wire>>

InitInitialize ==
    /\ env \in Environments
    /\ entry \in Entries
    /\ argv2 = "valid"
    /\ converter \in Converters
    /\ rawSchema = Undefined
    /\ PureIdle
    /\ pc = "Idle"
    /\ EngineIdle
    /\ RegistryEmpty

NextInitialize ==
    \/ Start
    \/ \E ok \in BOOLEAN : FetchConnectSettle(ok)
    \/ \E tools \in HarnessToolLists : FetchOnMessage(tools)
    \/ \E how \in {"decoded", "missing", "failed"},
          tools \in HarnessToolLists : FetchListSettle(how, tools)
    \/ \E ok \in BOOLEAN : FetchCloseSettle(ok)
    \/ \E ok \in BOOLEAN : FetchFailClose(ok)
    \/ Reinitialize

SpecInitialize == InitInitialize /\ [][NextInitialize]_vars

(***************************************************************************)
(* Properties of initializeMCPTools (SpecInitialize).                      *)
(***************************************************************************)
\* C23: once bindings are installed, a further initialization request
\* fetches no schema, opens no connection and leaves the tool catalog, the
\* installed bindings and the introspection namespace as they are
C23_InitializationIdempotent ==
    [][(isInitialized /\ reinits' = reinits + 1)
         => UNCHANGED <<fetch, transports, toolsMetadata, bindings,
                        globalTools, mcpConfig, isInitialized>>]_vars

\* C23 witness: bindings were installed by one fetch and initialization was
\* requested again twice
C23_Witness ==
    /\ isInitialized
    /\ reinits = 2
    /\ <<ServerA, <<"t", "U">>>> \in DOMAIN bindings
    /\ Len(toolsMetadata) = 1
    /\ Len(transports) = 1
    /\ transports[1].st = "closed"

(***************************************************************************)
(* Properties of the engine's initialization and failure handling (Spec).  *)
(***************************************************************************)
\* C24: after initialization completes, for every provider configuration,
\* the one with no providers included, global.__tools is installed and
\* servers() returns exactly the configured provider names
C24_IntrospectionAvailable ==
    isInitialized
        => /\ globalTools # Undefined
           /\ globalTools = ToolsNamespace(getMCPConfigFromEnv(env))

(***************************************************************************)
(* executor.ts: __tools.search, lines 118-123 (225-230), called on its own *)
(* once initialization has installed it.                                   *)
(***************************************************************************)
\* String.prototype.includes
Includes(s, sub) ==
    \E i \in 0..(Len(s) - Len(sub)) : SubSeq(s, i + 1, i + Len(sub)) = sub

\* a search that compares without lowering the case
searchCaseSensitive(metadata, kw) ==
    SelectSeq(metadata,
              LAMBDA t :
                \/ t.description # <<>> /\ Includes(t.description[1], kw)
                \/ Includes(t.functionName, kw))

\* lines 118-123: toolsMetadata.filter(t =>
\*   t.description?.toLowerCase().includes(keyword.toLowerCase()) ||
\*   t.functionName.toLowerCase().includes(keyword.toLowerCase()))
search(metadata, kw) ==
    SelectSeq(metadata,
              LAMBDA t :
                \/ /\ t.description # <<>>
                   /\ Includes(toLowerCase(t.description[1]), toLowerCase(kw))
                \/ Includes(toLowerCase(t.functionName), toLowerCase(kw)))

\* the descriptors of the catalogs searched: with and without a
\* description, with upper case in the description or in the binding name
SearchedTools ==
    {DescribedTool(<<"t", "_", "u">>, <<"id">>, <<<<"A", "b">>>>),
     DescribedTool(<<"b">>, <<>>, <<>>),
     DescribedTool(<<"u">>, <<>>, <<<<"t", "U">>>>),
     DescribedTool(<<"a", "_", "b">>, <<>>, <<<<"u">>>>)}

\* the tool lists provider a may have advertised
SearchedLists ==
    {<<>>} \cup {<<x>> : x \in SearchedTools}
           \cup {<<x, y>> : x \in SearchedTools, y \in SearchedTools}

Keywords ==
    {<<>>, <<"T">>, <<"t", "u">>, <<"a", "b">>, <<"B">>, <<"x">>}

\* the state after initializeMCPTools has installed the tools of provider a
InitSearch ==
    /\ env = <<EnvEntry(<<"A">>, "json")>>
    /\ entry \in Entries
    /\ argv2 = "valid"
    /\ converter = "part_001"
    /\ rawSchema = Undefined
    /\ normalizedSchema = Undefined
    /\ reinits = 0
    /\ rawTool = Undefined
    /\ fetchedTool = Undefined
    /\ bindingCall = Undefined
    /\ forwarded = Undefined
    /\ keyword \in Keywords
    /\ found = <<>>
    /\ NamesIdle
    /\ pc = "Search"
    /\ captured = TRUE
    /\ logs = <<>>
    /\ stdout = <<>>
    /\ exitCode = -1
    /\ outcome = [kind |-> "none", val |-> Undefined]
    /\ isInitialized = TRUE
    /\ mcpConfig = <<ServerA>>
    /\ \E list \in SearchedLists :
         /\ toolsMetadata = MetadataOf(<<[serverName |-> ServerA,
                                          tools |-> list]>>)
         /\ bindings = BindingsOf(toolsMetadata)
    /\ globalTools = ToolsNamespace(mcpConfig)
    /\ fetch = NoFetch
    /\ userLogs = 0
    /\ RegistryEmpty

\* user code calls __tools.search(keyword)
Search ==
    /\ pc = "Search"
    /\ pc' = "Searched"
    /\ found' = search(toolsMetadata, keyword)
    /\ UNCHANGED <<normalizedSchema, reinits, rawTool, fetchedTool,
                   bindingCall, forwarded, keyword, nameVars>>
    /\ UNCHANGED <<worldVars, engineData, registryVars>>

NextSearch == Search

SpecSearch == InitSearch /\ [][NextSearch]_vars

(***************************************************************************)
(* Properties of __tools.search (SpecSearch).                              *)
(***************************************************************************)
\* text holds kw at some position, letters compared without regard to case
ContainsIgnoringCase(text, kw) ==
    \E i \in 0..(Len(text) - Len(kw)) :
        \A j \in 1..Len(kw) : UpperChar(text[i + j]) = UpperChar(kw[j])

MatchesKeyword(t, kw) ==
    \/ t.description # <<>> /\ ContainsIgnoringCase(t.description[1], kw)
    \/ ContainsIgnoringCase(t.functionName, kw)

RECURSIVE MatchingInOrder(_, _)
MatchingInOrder(catalog, kw) ==
    IF catalog = <<>> THEN <<>>
    ELSE IF MatchesKeyword(Head(catalog), kw)
         THEN <<Head(catalog)>> \o MatchingInOrder(Tail(catalog), kw)
         ELSE MatchingInOrder(Tail(catalog), kw)

\* C25: search(keyword) returns exactly the catalog descriptors whose
\* description or binding name contains the keyword ignoring case, in
\* catalog order; a descriptor without a description is matched on its
\* binding name alone
C25_SearchMatches ==
    pc = "Searched" => found = MatchingInOrder(toolsMetadata, keyword)

\* C25 witness: the keyword B found a tool by its description "Ab" and
\* after it a tool without description by its name b, and passed over
\* nothing else
C25_Witness ==
    /\ pc = "Searched"
    /\ keyword = <<"B">>
    /\ Len(toolsMetadata) = 2
    /\ toolsMetadata[1].functionName = <<"t", "U">>
    /\ toolsMetadata[1].description = <<<<"A", "b">>>>
    /\ toolsMetadata[2].description = <<>>
    /\ found = toolsMetadata

\* C26: when the code argument is absent the process exits with a non-zero
\* code before any capture session starts, before any provider connection
\* is opened and before any envelope is written to standard output
C26_UsageErrorBeforeAnything ==
    argv2 = "absent"
        => /\ pc \in {"Idle", "Exited"}
           /\ pc = "Exited" => exitCode = 1
           /\ ~captured
           /\ logs = <<>>
           /\ transports = <<>>
           /\ stdout = <<>>
           /\ ~isInitialized

\* C26 witness: the engine was started without code under two configured
\* providers and has exited with status 1
C26_Witness ==
    /\ argv2 = "absent"
    /\ entry = "runExecutor"
    /\ Len(env) = 2
    /\ pc = "Exited"
    /\ exitCode = 1
    /\ transports = <<>>

\* the providers whose environment entry holds well-formed JSON, by their
\* lower-case names, in the order of the environment
WellFormedProviders(e) ==
    LET good == SelectSeq(e, LAMBDA x : x.value = "json")
    IN  [i \in 1..Len(good) |-> toLowerCase(good[i].key)]

\* C27: during discovery from the environment a provider whose entry is
\* malformed is skipped without failing initialization, and every provider
\* with a well-formed entry is still discovered and gets its bindings
C27_MalformedEntrySkipped ==
    /\ (pc # "Idle" /\ PassedUsageCheck)
         => mcpConfig = WellFormedProviders(env)
    /\ (pc \notin {"Idle", "Init"} /\ PassedUsageCheck /\ ~isInitialized)
         => /\ fetch.st = "failed"
            /\ fetch.err \in {ConnectError, ListError, NoToolsError,
                              NoLengthError, CloseError}
    /\ isInitialized
         => \A i \in 1..Len(WellFormedProviders(env)) :
              \E b \in DOMAIN bindings : b[1] = WellFormedProviders(env)[i]

\* C27 witness: with a malformed entry for a and a well-formed one for b,
\* initialization completed with b as the only provider and b's binding
\* installed
C27_Witness ==
    /\ env = <<EnvEntry(<<"A">>, "malformed"), EnvEntry(<<"B">>, "json")>>
    /\ pc = "Running"
    /\ isInitialized
    /\ mcpConfig = <<ServerB>>
    /\ DOMAIN bindings = {<<ServerB, <<"t", "U">>>>}

\* a condition was raised while the capture session was on: the fetch of
\* the schemas failed under runExecutor, or the handler settled with an
\* error (a compile failure, a raise in the user code)
RaisedWhileCapturing ==
    \/ entry = "runExecutor" /\ fetch.st = "failed"
    \/ outcome.kind = "err"

\* C28: every condition raised after capture has started is caught at the
\* engine boundary and yields one fully formed envelope with exitCode 1 and
\* the error field set; when initialization fails the user code is never
\* run
C28_FailuresBecomeEnvelopes ==
    /\ (pc = "Exited" /\ RaisedWhileCapturing)
         => /\ EnvelopeCount = 1
            /\ \A e \in Envelopes :
                 /\ e.exitCode = 1
                 /\ e.result = Null
                 /\ e.error.t = "string"
                 /\ DOMAIN e = {"result", "logs", "exitCode", "error"}
            /\ exitCode = 1
    /\ fetch.st = "failed"
         => /\ pc \in {"Failed", "Stopped", "Written", "Exited"}
            /\ ~isInitialized
            /\ userLogs = 0
            /\ calls = <<>>

\* C28 witness: the connection to the first provider failed during
\* initialization under runExecutor, and the process has exited with a
\* failure envelope that carries the message
C28_Witness ==
    /\ entry = "runExecutor"
    /\ pc = "Exited"
    /\ fetch.st = "failed"
    /\ fetch.err = ConnectError
    /\ exitCode = 1
    /\ \E e \in Envelopes : e.error = Val("string", "Connection failed")

\* C29: the capture session is installed before binding initialization,
\* and hence before any schema fetch, starts; binding initialization has
\* finished before the user code is compiled and invoked
C29_CaptureThenInitThenRun ==
    /\ pc = "Init" => captured
    /\ pc = "Running" => isInitialized /\ fetch.st \in {"none", "done"}

(***************************************************************************)
(* Properties of the tool-list request of fetchToolSchemas                 *)
(* (SpecInitialize).                                                       *)
(***************************************************************************)
\* the step in which `await client.listTools()` settles
ListSettles == fetch.st = "listing" /\ fetch'.st # "listing"

\* the tools pushed for the provider the loop is at
ToolsTaken(f) == f.list[Len(f.list)].tools

\* C30: when the tool-list request fails and a raw tool payload was seen on
\* the wire for that provider, the fetch goes on with the last payload
\* seen; when it fails and none was seen, the failure propagates; when the
\* request succeeds, the decoded list is used even if a raw payload was
\* seen as well
C30_FallbackToRawPayload ==
    [][ListSettles
         => /\ (fetch'.response.how = "failed" /\ fetch.rawToolsData # <<>>)
                 => /\ fetch'.st = "closing"
                    /\ Len(fetch'.list) = Len(fetch.list) + 1
                    /\ ToolsTaken(fetch') = fetch.rawToolsData[1]
            /\ (fetch'.response.how = "failed" /\ fetch.rawToolsData = <<>>)
                 => /\ fetch'.st = "closingFailed"
                    /\ fetch'.err = ListError
                    /\ fetch'.list = fetch.list
            /\ fetch'.response.how = "decoded"
                 => /\ fetch'.st = "closing"
                    /\ Len(fetch'.list) = Len(fetch.list) + 1
                    /\ ToolsTaken(fetch') = fetch'.response.tools[1]]_vars

\* C30 witness: the tool-list request failed after a payload with the tool
\* u was seen on the wire, and the fetch took that payload
C30_Witness ==
    /\ fetch.st = "closing"
    /\ fetch.response.how = "failed"
    /\ fetch.rawToolsData = <<<<OtherTool>>>>
    /\ ToolsTaken(fetch) = <<OtherTool>>

(***************************************************************************)
(* The engine under runExecutor when nothing hangs: every awaited provider *)
(* operation settles, the user code returns or raises, and the synchronous *)
(* statements of the entry point run.  The handler is the one of           *)
(* executor.ts (part_000 lines 134-140), built with part_001.              *)
(***************************************************************************)
InitTerminating ==
    /\ Init
    /\ entry = "runExecutor"
    /\ converter = "part_001"

\* the awaited operations of the schema fetch
FetchSettles ==
    \/ \E ok \in BOOLEAN : FetchConnectSettle(ok)
    \/ \E how \in {"decoded", "missing", "failed"},
          tools \in AdvertisedTools : FetchListSettle(how, tools)
    \/ \E ok \in BOOLEAN : FetchCloseSettle(ok)
    \/ \E ok \in BOOLEAN : FetchFailClose(ok)

\* the user code completes
UserCompletes ==
    \/ \E v \in ReturnValues : UserReturn(v)
    \/ \E x \in RaisedValues : UserRaise(x)

\* the statements of runExecutor after the handler has settled
EngineFinishes == StopCapture \/ WriteEnvelope \/ ProcessExit

SpecTerminating ==
    /\ InitTerminating
    /\ [][Next]_vars
    /\ WF_vars(Start)
    /\ WF_vars(FetchSettles)
    /\ WF_vars(UserCompletes)
    /\ WF_vars(EngineFinishes)

(***************************************************************************)
(* Properties of the engine's progress (SpecTerminating).                  *)
(***************************************************************************)
\* the state of the engine: Idle, Capturing (the capture is on and the
\* bindings are being initialized), Running, Succeeded, Failed, Done
EngineState ==
    CASE pc = "Idle" -> "Idle"
      [] pc = "Init" -> "Capturing"
      [] pc = "Running" -> "Running"
      [] pc = "Exited" -> "Done"
      [] pc = "Succeeded" -> "Succeeded"
      [] pc = "Failed" -> "Failed"
      [] OTHER -> IF outcome.kind = "ok" THEN "Succeeded" ELSE "Failed"

StateOrder(st) ==
    CASE st = "Idle" -> 0
      [] st = "Capturing" -> 1
      [] st = "Running" -> 2
      [] st = "Succeeded" -> 3
      [] st = "Failed" -> 4
      [] st = "Done" -> 5

\* C31 as stated: when every provider operation and the user code eventually
\* complete, every invocation of runExecutor, the one without a code
\* argument included, eventually writes its envelope and terminates, and no
\* state of the engine is entered twice
C31_EveryInvocationWrites ==
    /\ [](pc = "Idle" => <>(pc = "Exited" /\ EnvelopeCount = 1))
    /\ [][StateOrder(EngineState') >= StateOrder(EngineState)]_vars

\* C31: when every provider operation and the user code eventually
\* complete, every invocation of runExecutor that passes the usage check
\* eventually writes exactly one envelope and terminates, and no state of
\* the engine is entered twice
C31_Terminates ==
    /\ []((pc = "Idle" /\ PassedUsageCheck)
            => <>(pc = "Exited" /\ EnvelopeCount = 1))
    /\ [][StateOrder(EngineState') >= StateOrder(EngineState)]_vars

\* C31 witness: an invocation whose user code called a tool, with the call
\* still pending, has written its envelope and terminated
C31_Witness ==
    /\ pc = "Exited"
    /\ EnvelopeCount = 1
    /\ Len(calls) = 1
    /\ Pending(calls[1])


(***************************************************************************)
(* toCamelCase on its own (SpecCamelCase): part_000 lines 22-24, the same  *)
(* function as executor-utils.ts line 141, converter.ts line 28 and        *)
(* part_001 line 211.                                                      *)
(***************************************************************************)
\* the characters of tool names: lowercase letters, an uppercase letter, a
\* digit and the underscore
NameChars == {"a", "t", "_", "2", "A"}

RECURSIVE NamesOfLen(_)
NamesOfLen(n) ==
    IF n = 0 THEN {<<>>}
    ELSE {<<c>> \o s : c \in NameChars, s \in NamesOfLen(n - 1)}

\* the tool names tried: every name up to MaxNameLen characters, two names
\* of the shape of get_user and get_data_v2, and one with a double
\* underscore inside
ToolNames ==
    UNION {NamesOfLen(n) : n \in 0..MaxNameLen}
      \cup {<<"t", "a", "_", "u", "a">>,
            <<"a", "_", "t", "a", "_", "u", "2">>,
            <<"t", "_", "_", "a">>}

InitCamelCase ==
    /\ env = <<>>
    /\ entry = "none"
    /\ argv2 = "absent"
    /\ converter = "part_001"
    /\ rawSchema = Undefined
    /\ normalizedSchema = Undefined
    /\ reinits = 0
    /\ rawTool = Undefined
    /\ fetchedTool = Undefined
    /\ bindingCall = Undefined
    /\ forwarded = Undefined
    /\ keyword = Undefined
    /\ found = Undefined
    /\ toolName \in ToolNames
    /\ functionName = Undefined
    /\ provider = Undefined
    /\ splitParts = Undefined
    /\ IntrospectIdle
    /\ pc = "Name"
    /\ EngineIdle
    /\ RegistryEmpty

\* part_000 line 71: const functionName = toCamelCase(tool.name)
CamelCase ==
    /\ pc = "Name"
    /\ pc' = "Named"
    /\ functionName' = toCamelCase(toolName)
    /\ UNCHANGED <<normalizedSchema, reinits, rawTool, fetchedTool,
                   bindingCall, forwarded, keyword, found, toolName,
                   provider, splitParts, introspectVars>>
    /\ UNCHANGED <<worldVars, engineData, registryVars>>

NextCamelCase == CamelCase

SpecCamelCase == InitCamelCase /\ [][NextCamelCase]_vars

(***************************************************************************)
(* The combined identifier on its own (SpecIdentifier): what the binding   *)
(* of part_000 lines 82-97 hands to callTool, what callTool (lines 43-46)  *)
(* builds of it and what callMCPTool (lines 183-190) splits it into.       *)
(***************************************************************************)
\* provider names getMCPConfigFromEnv derives: the rest of the key in lower
\* case, underscores included
ProviderNames == {<<"a">>, <<"a", "_", "t">>, <<"a", "_">>}

InitIdentifier ==
    /\ env = <<>>
    /\ entry = "none"
    /\ argv2 = "absent"
    /\ converter = "part_001"
    /\ rawSchema = Undefined
    /\ normalizedSchema = Undefined
    /\ reinits = 0
    /\ rawTool = Undefined
    /\ fetchedTool = Undefined
    /\ bindingCall = Undefined
    /\ forwarded = Undefined
    /\ keyword = Undefined
    /\ found = Undefined
    /\ toolName \in ToolNames \ {<<>>}
    /\ functionName = Undefined
    /\ provider \in ProviderNames
    /\ splitParts = Undefined
    /\ IntrospectIdle
    /\ pc = "Combine"
    /\ EngineIdle
    /\ RegistryEmpty

\* callTool line 45 and callMCPTool line 183:
\* `${serverName}__${toolName}`.split("__")
SplitIdentifier ==
    /\ pc = "Combine"
    /\ pc' = "Split"
    /\ splitParts' = Split(CombinedName(provider, toolName))
    /\ UNCHANGED <<normalizedSchema, reinits, rawTool, fetchedTool,
                   bindingCall, forwarded, keyword, found, toolName,
                   functionName, provider, introspectVars>>
    /\ UNCHANGED <<worldVars, engineData, registryVars>>

NextIdentifier == SplitIdentifier

SpecIdentifier == InitIdentifier /\ [][NextIdentifier]_vars

\* C37: for every installed binding of provider P and tool T, names with a
\* double underscore included, callTool splits the combined identifier the
\* binding builds back into exactly P and T, so the call is never rejected
\* for its identifier
C37_IdentifierRoundTrip ==
    pc = "Split" => splitParts = <<provider, toolName>>

(***************************************************************************)
(* Properties of toCamelCase (SpecCamelCase).                              *)
(***************************************************************************)
\* position i of s holds an underscore immediately followed by a lowercase
\* letter
JoinsNext(s, i) ==
    /\ i \in 1..(Len(s) - 1)
    /\ s[i] = "_"
    /\ IsLowerLetter(s[i + 1])

\* the positions of s that are kept, in order
KeptPositions(s) ==
    SelectSeq([i \in 1..Len(s) |-> i], LAMBDA i : ~JoinsNext(s, i))

\* s without the underscores that are immediately followed by a lowercase
\* letter, those letters upper-cased, every other character as it is
CamelOf(s) ==
    [k \in 1..Len(KeptPositions(s)) |->
        LET i == KeptPositions(s)[k]
        IN  IF JoinsNext(s, i - 1) THEN UpperChar(s[i]) ELSE s[i]]

\* C32: the binding name is the tool name with each underscore that is
\* immediately followed by a lowercase letter removed and that letter
\* upper-cased, every other character (an underscore followed by a digit, by
\* an uppercase letter or by nothing included) unchanged
C32_CamelCase ==
    pc = "Named" => functionName = CamelOf(toolName)

\* C32 witness: a name of the shape of get_data_v2 has become the binding
\* name of the shape of getDataV2
C32_Witness ==
    /\ pc = "Named"
    /\ toolName = <<"a", "_", "t", "a", "_", "u", "2">>
    /\ functionName = <<"a", "T", "a", "U", "2">>

\* an underscore before a digit, before an uppercase letter and at the end
\* of the name is kept
C32_WitnessKept ==
    /\ pc = "Named"
    /\ toolName \in {<<"a", "_", "2">>, <<"a", "_", "A">>, <<"t", "a", "_">>}
    /\ functionName = toolName


(***************************************************************************)
(* More properties of the client module (SpecRegistry).                    *)
(***************************************************************************)
\* C33: at every suspension point the client registry and the transport
\* registry hold exactly the same set of provider names
C33_RegistriesSameNames ==
    DOMAIN clientRegistry = RegisteredNames(transportRegistry)

\* C33 witness: closeAllConnections has closed and deleted the transport of
\* one provider while another provider is still registered
C33_Witness ==
    /\ closer.active
    /\ \E i \in 1..Len(transports) :
         /\ transports[i].st = "closed"
         /\ transports[i].server \notin DOMAIN clientRegistry
    /\ DOMAIN clientRegistry # {}


\* the transport registry holds transport i
Registered(i) ==
    \E j \in 1..Len(transportRegistry) : transportRegistry[j].tid = i

\* the getOrCreateClient call that launched transport i has settled
LaunchSettled(i) ==
    \A k \in 1..Len(calls) :
        calls[k].tid = i => calls[k].st # "connecting"

\* C34: every transport getOrCreateClient launched whose provider process
\* is still running is, once that call has settled, held in the transport
\* registry, so that closeAllConnections() attempts to close it; also when
\* several calls for the same provider are pending at once
C34_LaunchedRegisteredOrClosed ==
    \A i \in 1..Len(transports) :
        (transports[i].origin = "call" /\ transports[i].st = "open"
           /\ LaunchSettled(i))
          => Registered(i)


\* call c was rejected for an invalid identifier or a missing provider
\* configuration
RejectedUnlaunched(c) ==
    /\ c.st = "rejected"
    /\ c.out \in {InvalidNameError(c.id), ConfigNotFoundError(c.server)}

\* C35: a callTool invocation that is rejected for an invalid identifier or
\* a missing provider configuration launches no provider process and leaves
\* the client and transport registries unchanged
C35_RejectedCallLaunchesNothing ==
    [][(Len(calls') = Len(calls) + 1 /\ RejectedUnlaunched(calls'[Len(calls')]))
         => /\ transports' = transports
            /\ clientRegistry' = clientRegistry
            /\ transportRegistry' = transportRegistry]_vars

\* C35 witness: with provider a connected and registered, a second call was
\* rejected for its identifier and one transport exists
C35_Witness ==
    /\ Len(calls) = 2
    /\ calls[2].st = "rejected"
    /\ calls[2].out = InvalidNameError(calls[2].id)
    /\ DOMAIN clientRegistry = {ServerA}
    /\ Len(transports) = 1

\* a call for a provider without configuration was rejected and nothing
\* was launched
C35_WitnessNoConfiguration ==
    /\ Len(calls) = 1
    /\ calls[1].st = "rejected"
    /\ calls[1].out = ConfigNotFoundError(ServerB)
    /\ transports = <<>>


(***************************************************************************)
(* More properties of the engine (Spec).                                   *)
(***************************************************************************)
\* the providers getMCPConfigFromEnv discovered
Discovered == {mcpConfig[i] : i \in 1..Len(mcpConfig)}

\* C36: for every provider discovered from the environment, whatever the
\* letter case of its key, the lookup callTool performs for the derived name
\* finds the entry: a binding of a discovered provider never fails with the
\* error of a missing configuration
C36_DiscoveredProviderIsFound ==
    \A k \in 1..Len(calls) :
        calls[k].server \in Discovered
            => calls[k].out # ConfigNotFoundError(calls[k].server)


(***************************************************************************)
(* __tools.list and __tools.info on their own (SpecIntrospect): part_000   *)
(* lines 106-116, the same as executor-utils.ts lines 213-223, once        *)
(* initialization has installed the tools of provider a.                   *)
(***************************************************************************)
\* lines 106-110: toolsMetadata.map(t => ({server, function, description}))
toolsList(metadata) ==
    [i \in 1..Len(metadata) |->
        [server |-> metadata[i].serverName,
         function |-> metadata[i].serverName \o <<".">> \o metadata[i].functionName,
         description |-> metadata[i].description]]

\* lines 112-116: toolsMetadata.find(t => t.serverName === serverName &&
\* t.functionName === functionName), <<>> for undefined
toolsInfo(metadata, serverName, bindingName) ==
    LET hits == SelectSeq(metadata,
                          LAMBDA t : /\ t.serverName = serverName
                                     /\ t.functionName = bindingName)
    IN  IF hits = <<>> THEN <<>> ELSE <<hits[1]>>

\* the tools of the catalogs introspected: those searched and one whose
\* name tU is the binding name of the tool t_u
IntrospectedTools == SearchedTools \cup {DescribedTool(<<"t", "U">>, <<>>, <<>>)}

\* the tool lists provider a may have advertised: up to two different tools
IntrospectedLists ==
    {<<>>} \cup {<<x>> : x \in IntrospectedTools}
           \cup {l \in IntrospectedTools \X IntrospectedTools : l[1] # l[2]}

\* the state after initializeMCPTools has installed the tools of provider a
InitIntrospect ==
    /\ env = <<EnvEntry(<<"A">>, "json")>>
    /\ entry \in Entries
    /\ argv2 = "valid"
    /\ converter = "part_001"
    /\ rawSchema = Undefined
    /\ normalizedSchema = Undefined
    /\ reinits = 0
    /\ rawTool = Undefined
    /\ fetchedTool = Undefined
    /\ bindingCall = Undefined
    /\ forwarded = Undefined
    /\ keyword = Undefined
    /\ found = Undefined
    /\ toolName = Undefined
    /\ functionName = Undefined
    /\ provider = Undefined
    /\ splitParts = Undefined
    /\ listed = <<>>
    /\ described = [serverName |-> <<>>, functionName |-> <<>>, info |-> <<>>]
    /\ pc = "Introspect"
    /\ captured = TRUE
    /\ logs = <<>>
    /\ stdout = <<>>
    /\ exitCode = -1
    /\ outcome = [kind |-> "none", val |-> Undefined]
    /\ isInitialized = TRUE
    /\ mcpConfig = <<ServerA>>
    /\ \E tools \in IntrospectedLists :
         /\ toolsMetadata = MetadataOf(<<[serverName |-> ServerA,
                                          tools |-> tools]>>)
         /\ bindings = BindingsOf(toolsMetadata)
    /\ globalTools = ToolsNamespace(mcpConfig)
    /\ fetch = NoFetch
    /\ userLogs = 0
    /\ RegistryEmpty

\* user code calls __tools.list()
ToolsList ==
    /\ pc = "Introspect"
    /\ pc' = "Listed"
    /\ listed' = toolsList(toolsMetadata)
    /\ UNCHANGED <<normalizedSchema, reinits, rawTool, fetchedTool,
                   bindingCall, forwarded, keyword, found, toolName,
                   functionName, provider, splitParts, described>>
    /\ UNCHANGED <<worldVars, engineData, registryVars>>

\* user code calls __tools.info(b[1], b[2]) for a binding of the namespace
\* global[b[1]]
ToolsInfo(b) ==
    /\ pc = "Listed"
    /\ b \in DOMAIN bindings
    /\ pc' = "Described"
    /\ described' = [serverName |-> b[1], functionName |-> b[2],
                     info |-> toolsInfo(toolsMetadata, b[1], b[2])]
    /\ UNCHANGED <<normalizedSchema, reinits, rawTool, fetchedTool,
                   bindingCall, forwarded, keyword, found, toolName,
                   functionName, provider, splitParts, listed>>
    /\ UNCHANGED <<worldVars, engineData, registryVars>>

NextIntrospect ==
    \/ ToolsList
    \/ \E b \in DOMAIN bindings : ToolsInfo(b)

SpecIntrospect == InitIntrospect /\ [][NextIntrospect]_vars

\* the entries of list() that name binding b
ListedAs(b) ==
    {i \in 1..Len(listed) : listed[i].function = b[1] \o <<".">> \o b[2]}

\* C38: for every binding name present in the namespace of a provider,
\* info(provider, bindingName) returns the descriptor of the tool the
\* installed binding invokes, and list() has exactly one entry per
\* installed binding, also when two tool names derive one binding name
C38_IntrospectionMatchesBindings ==
    /\ pc \in {"Listed", "Described"}
         => /\ Len(listed) = Cardinality(DOMAIN bindings)
            /\ \A b \in DOMAIN bindings : Cardinality(ListedAs(b)) = 1
    /\ pc = "Described"
         => /\ described.info # <<>>
            /\ described.info[1].toolName
                 = bindings[<<described.serverName, described.functionName>>].toolName


\* the transports fetchToolSchemas opened for serverName
FetchTransports(serverName) ==
    {i \in 1..Len(transports) :
        transports[i].origin = "fetch" /\ transports[i].server = serverName}

\* C39: the connections the schema fetch opens are never entered in the
\* registries: when initialization has finished the registries are empty,
\* and a tool call to a provider goes over a transport that
\* getOrCreateClient launched, distinct from the transport of the schema
\* fetch, which has been closed by then
C39_FetchConnectionsNotRegistered ==
    /\ \A j \in 1..Len(transportRegistry) :
         transports[transportRegistry[j].tid].origin = "call"
    /\ \A name \in DOMAIN clientRegistry :
         transports[clientRegistry[name]].origin = "call"
    /\ (pc = "Running" /\ calls = <<>>)
         => (transportRegistry = <<>> /\ DOMAIN clientRegistry = {})
    /\ \A k \in 1..Len(calls) :
         calls[k].st \in {"connecting", "calling", "resolved"}
            => /\ calls[k].tid > 0
               /\ transports[calls[k].tid].origin = "call"
               /\ \A i \in FetchTransports(calls[k].server) :
                    transports[i].st = "closed"

\* C39 witness: the schema fetch of provider a has closed its transport,
\* and the first call to a has connected over another transport, which is
\* the one the registry holds
C39_Witness ==
    /\ Len(calls) = 1
    /\ calls[1].st = "calling"
    /\ calls[1].server = ServerA
    /\ FetchTransports(ServerA) # {}
    /\ \A i \in FetchTransports(ServerA) : transports[i].st = "closed"
    /\ calls[1].tid \notin FetchTransports(ServerA)
    /\ transports[calls[1].tid].st = "open"
    /\ transportRegistry = <<[name |-> ServerA, tid |-> calls[1].tid]>>

====
